---- MODULE Spec2Model ----
(***************************************************************************)
(* weaverun: a local intercepting reverse proxy for LLM APIs.              *)
(*                                                                         *)
(* The module models three parts of the program and the way they call      *)
(* each other:                                                             *)
(*   - the Log Store of dashboard.py (ring, id index, SSE subscribers),    *)
(*   - the sink worker of weave_log.py (bounded queue, worker, callback),  *)
(*   - the request pipeline of proxy.py (forward and streaming engines).   *)
(*                                                                         *)
(* Specifications:                                                         *)
(*   Spec       Log Store API and SSE subscribers, every interleaving,     *)
(*              a handful of records                                       *)
(*   SpecRing   Log Store API driven until the ring is full and beyond     *)
(*   SpecSink   WeaveLogger.log_async and the background worker            *)
(*   SpecProxy  requests through _do_proxy / _do_streaming_proxy           *)
(***************************************************************************)
EXTENDS Integers, Sequences, FiniteSets, TLC

None == "None"
\* None where the value is otherwise a decoded JSON body
NoBody == [kind |-> "null"]
JsonBody(v) == [kind |-> "json", v |-> v]
\* {"_streaming": True, "_status": "in_progress"}
InProgress == [kind |-> "in_progress"]
\* None where the value is otherwise a number
NoneNum == -1

(***************************************************************************)
(* Program constants.                                                      *)
(***************************************************************************)
\* dashboard.py:14   _logs = deque(maxlen=100); dashboard.py:75 len(_logs_by_id) > 100
LogCap == 100
\* dashboard.py:132  asyncio.Queue(maxsize=50)
SubQueueCap == 50
\* weave_log.py:58   asyncio.Queue(maxsize=1000)
SinkQueueCap == 1000

(***************************************************************************)
(* Bounds of the model.                                                    *)
(***************************************************************************)
\* calls of the Log Store's API (add_log, update_log_entry, update_trace_url) in Spec
MaxCalls == 4
\* calls of the Log Store's API in SpecRing (past the capacity of the ring)
MaxRingCalls == 103
\* log_async calls in SpecSink (past the capacity of the sink queue)
MaxSinkCalls == 1002
\* tasks the worker takes from the sink queue in SpecSink
MaxTaken == 2
\* chunks upstream sends on one stream in SpecProxy
MaxChunks == 2

\* records added and sink tasks queued in SpecTrace
MaxTraceAdds == 2
MaxTraceTasks == 3

Reqs == {"r1", "r2"}

Subscribers == {"s1", "s2"}
\* the subscriber that connects in Spec
Watchers == {"s1"}
\* calls of the Log Store's API in SpecFlood
MaxFloodCalls == 51
\* frames each subscriber reads from its channel in SpecFlood
MaxFloodReads == 2
MaxStreamCalls == 4
MaxStopTasks == 3
MaxLoadCalls == 1001
MaxLoadAdds == 1
MaxHeldCalls == 2

Range(f) == {f[i] : i \in DOMAIN f}

VARIABLES
    logs,        \* _logs: the ring, a sequence of entry references, oldest first
    logsById,    \* _logs_by_id: the keys of the dict in insertion order
    ent,         \* the LogEntry objects, by reference (entry id)
    nextId,      \* the next entry id add_log draws
    dequeState,  \* the deque's mutation counter (read by its iterators)
    subscribers, \* _subscribers: the channels registered
    subPc,       \* each _event_stream generator's position
    subQueue,    \* each subscriber's asyncio.Queue
    subIter,     \* each replay's deque iterator: [pos, state]
    subSnap,     \* history: the ring when the subscriber connected
    delivered,   \* history: the frames each subscriber was sent
    emitted,     \* history: every event add_log / update_* broadcast
    calls,       \* history: number of calls of the Log Store's API
    sinkQueue,   \* WeaveLogger._queue: the LogTasks waiting
    unfinished,  \* the queue's count of tasks put and not yet task_done()
    sinkInit,    \* the flags _initialized and _failed
    warned,      \* WeaveLogger._warned
    workerPc,    \* _worker's position: "none", "get", "executor", "cancelled"
    workerCur,   \* the task _worker is processing
    sinkCalls,   \* history: number of log_async calls (the next task's number)
    putLog,      \* history: the log_async calls that did not enqueue their task
    taken,       \* history: the tasks the worker took, in order
    cbCalls,     \* history: the trace callbacks invoked, in order
    rpc,         \* each request's position in its handler
    rin,         \* each request: capturable?, body, debug mode when it was read
    response,    \* the response each client was returned (status, headers, body)
    client,      \* the chunks each streaming client was yielded, in order
    sstate,      \* _do_streaming_proxy's state dict: chunks, status_code, headers, error
    upSeq,       \* history: the chunks upstream sent on each stream, in order
    upResp,      \* history: the upstream response of each non-streaming call
    upOutcome,   \* history: how each upstream call ended
    reqEntry,    \* entry_id of each request (0: none)
    attempted,   \* history: the add_log calls each request's handler made
    arg,         \* the arguments a function of the matcher is applied to
    ret,         \* what the functions returned
    fpc          \* the functions applied so far

storeVars == <<logs, logsById, ent, nextId, dequeState, emitted, calls>>
subVars == <<subscribers, subPc, subQueue, subIter, subSnap, delivered>>
sinkVars == <<sinkQueue, unfinished, sinkInit, warned, workerPc, workerCur,
              sinkCalls, putLog, taken, cbCalls>>
proxyVars == <<rpc, rin, response, client, sstate, upSeq, upResp, upOutcome,
               reqEntry, attempted>>
fnVars == <<arg, ret, fpc>>
vars == <<storeVars, subVars, sinkVars, proxyVars, fnVars>>

(***************************************************************************)
(* Log Store: dashboard.py                                                 *)
(***************************************************************************)

\* round(latency_ms, 1) on a latency given in hundredths of a millisecond:
\* the nearest tenth; a tie (x.x25, x.x75, the ones a float holds exactly)
\* goes to the even tenth. The latencies of the model are no other ties.
Round1(h) ==
    LET q == h \div 10
        r == h % 10
    IN  IF r < 5 THEN q * 10
        ELSE IF r > 5 THEN (q + 1) * 10
        ELSE IF q % 2 = 0 THEN q * 10 ELSE (q + 1) * 10

\* a plausible slip: the ring evicts at its right end
DequeAppendPopRight(d, x) ==
    IF Len(d) >= LogCap THEN Append(SubSeq(d, 1, Len(d) - 1), x)
    ELSE Append(d, x)

\* deque.append on a deque(maxlen=LogCap): the oldest falls off the left
DequeAppend(d, x) ==
    IF Len(d) >= LogCap THEN Tail(Append(d, x)) ELSE Append(d, x)

\* dict[key] = value: a new key goes last, a key already there keeps its place
DictSet(keys, k) ==
    IF k \in Range(keys) THEN keys ELSE Append(keys, k)

\* a plausible slip: the lookup dict is never cleaned up
TrimIndexNever(keys) == keys

\* while len(_logs_by_id) > 100: del _logs_by_id[next(iter(_logs_by_id))]
RECURSIVE TrimIndex(_)
TrimIndex(keys) ==
    IF Len(keys) > LogCap THEN TrimIndex(Tail(keys)) ELSE keys

\* a plausible slip: a channel created without maxsize
PutNowaitUnbounded(q, msg, cap) == Append(q, msg)

\* queue.put_nowait(msg) inside try/except QueueFull: pass
PutNowait(q, msg, cap) ==
    IF Len(q) >= cap THEN q ELSE Append(q, msg)

\* for queue in _subscribers: queue.put_nowait(msg)
Broadcast(msg) ==
    [s \in Subscribers |->
        IF s \in subscribers THEN PutNowait(subQueue[s], msg, SubQueueCap)
        ELSE subQueue[s]]

\* the keyword arguments add_log is given
AddArgs ==
    { [path |-> "/v1/chat/completions", status_code |-> 200, latency_ms |-> 1234,
       trace_pending |-> TRUE, request_body |-> JsonBody("req"),
       response_body |-> JsonBody("resp")],
      [path |-> "/v1/embeddings", status_code |-> 500, latency_ms |-> 1250,
       trace_pending |-> FALSE, request_body |-> NoBody, response_body |-> NoBody] }

DefaultArgs ==
    [path |-> "/v1/chat/completions", status_code |-> 200, latency_ms |-> 1234,
     trace_pending |-> TRUE, request_body |-> JsonBody("req"),
     response_body |-> JsonBody("resp")]

NewEntry(eid, a) ==
    [id |-> eid, method |-> "POST", path |-> a.path, status_code |-> a.status_code,
     latency_ms |-> Round1(a.latency_ms), trace_url |-> None,
     trace_pending |-> a.trace_pending, request_body |-> a.request_body,
     response_body |-> a.response_body]

\* add_log(**a): the entry id it returns is nextId
AddLog(a) ==
    LET eid == nextId
        msg == [type |-> "log", id |-> eid, trace_url |-> None]
    IN  /\ logs' = DequeAppend(logs, eid)
        /\ dequeState' = dequeState + (IF Len(logs) >= LogCap THEN 2 ELSE 1)
        /\ ent' = (eid :> NewEntry(eid, a)) @@ ent
        /\ logsById' = TrimIndex(DictSet(logsById, eid))
        /\ subQueue' = Broadcast(msg)
        /\ emitted' = Append(emitted, msg)
        /\ nextId' = nextId + 1

\* a plausible slip: the record is looked up among all records ever made,
\* not in the trimmed index
UpdateTraceUrlAnyIssued(eid, url) ==
    IF eid \in DOMAIN ent
    THEN LET msg == [type |-> "trace_update", id |-> eid, trace_url |-> url]
         IN  /\ ent' = [ent EXCEPT ![eid].trace_url = url,
                                   ![eid].trace_pending = FALSE]
             /\ subQueue' = Broadcast(msg)
             /\ emitted' = Append(emitted, msg)
    ELSE UNCHANGED <<ent, subQueue, emitted>>

\* update_trace_url(entry_id, trace_url)
UpdateTraceUrl(eid, url) ==
    IF eid \in Range(logsById)
    THEN LET msg == [type |-> "trace_update", id |-> eid, trace_url |-> url]
         IN  /\ ent' = [ent EXCEPT ![eid].trace_url = url,
                                   ![eid].trace_pending = FALSE]
             /\ subQueue' = Broadcast(msg)
             /\ emitted' = Append(emitted, msg)
    ELSE UNCHANGED <<ent, subQueue, emitted>>

\* a plausible slip: the end-of-stream update also clears trace_pending
UpdateLogEntryClearsPending(eid, u) ==
    IF eid \in Range(logsById)
    THEN LET msg == [type |-> "log_update", id |-> eid, trace_url |-> None]
         IN  /\ ent' = [ent EXCEPT ![eid].status_code = u.status_code,
                                   ![eid].trace_pending = FALSE]
             /\ subQueue' = Broadcast(msg)
             /\ emitted' = Append(emitted, msg)
    ELSE UNCHANGED <<ent, subQueue, emitted>>

\* update_log_entry(entry_id, response_body=, latency_ms=, status_code=)
UpdateLogEntry(eid, u) ==
    IF eid \in Range(logsById)
    THEN LET msg == [type |-> "log_update", id |-> eid, trace_url |-> None]
             e0 == ent[eid]
             e1 == IF u.response_body # NoBody
                   THEN [e0 EXCEPT !.response_body = u.response_body] ELSE e0
             e2 == IF u.latency_ms # NoneNum
                   THEN [e1 EXCEPT !.latency_ms = Round1(u.latency_ms)] ELSE e1
             e3 == IF u.status_code # NoneNum
                   THEN [e2 EXCEPT !.status_code = u.status_code] ELSE e2
         IN  /\ ent' = [ent EXCEPT ![eid] = e3]
             /\ subQueue' = Broadcast(msg)
             /\ emitted' = Append(emitted, msg)
    ELSE UNCHANGED <<ent, subQueue, emitted>>

UpdateArgs ==
    { [response_body |-> JsonBody("final"), latency_ms |-> 456, status_code |-> 200],
      [response_body |-> NoBody, latency_ms |-> NoneNum, status_code |-> 502] }

TraceUrls == {None, "https://wandb.ai/call/1"}

(***************************************************************************)
(* SSE subscription: dashboard.py _event_stream                            *)
(***************************************************************************)

\* {"type": "log", **asdict(entry)}: the entry as it is when the frame is built
EntryFrame(type, eid) == [type |-> type, id |-> eid, data |-> ent[eid]]

\* the frame _event_stream builds from a queued message
MsgFrame(msg) ==
    IF msg.type = "trace_update"
    THEN [type |-> "trace_update", id |-> msg.id, data |-> msg.trace_url]
    ELSE EntryFrame(msg.type, msg.id)

\* msg = await queue.get() with a message waiting, then the yield of its frame
TakeFrame(s) ==
    /\ delivered' = [delivered EXCEPT ![s] = Append(@, MsgFrame(Head(subQueue[s])))]
    /\ subQueue' = [subQueue EXCEPT ![s] = Tail(@)]

\* the generator's first step: register the channel, start the replay
Subscribe(s) ==
    /\ subPc[s] = "idle"
    /\ subscribers' = subscribers \cup {s}
    /\ subSnap' = [subSnap EXCEPT ![s] = logs]
    /\ subIter' = [subIter EXCEPT ![s] = [pos |-> 1, state |-> dequeState]]
    /\ IF logs = <<>>
       THEN /\ subPc' = [subPc EXCEPT ![s] = "live"]
            /\ UNCHANGED delivered
       ELSE /\ subPc' = [subPc EXCEPT ![s] = "replay"]
            /\ delivered' = [delivered EXCEPT ![s] = Append(@, EntryFrame("log", logs[1]))]
    /\ UNCHANGED <<storeVars, subQueue, sinkVars, proxyVars, fnVars>>

\* a plausible slip: an iterator that tolerates appends, as a list's does
IterMutatedNever(it, state) == FALSE

\* the deque iterator's check on each step: the deque has been mutated since
\* the iterator was made
IterMutated(it, state) == it.state # state

\* the replay resumes after a yield: the deque iterator's next item
ReplayNext(s) ==
    /\ subPc[s] = "replay"
    /\ IF IterMutated(subIter[s], dequeState)
       THEN \* RuntimeError: deque mutated during iteration; finally: remove
            /\ subPc' = [subPc EXCEPT ![s] = "crashed"]
            /\ subscribers' = subscribers \ {s}
            /\ UNCHANGED <<subIter, delivered, subQueue>>
       ELSE IF subIter[s].pos >= Len(logs)
       THEN \* the ring is exhausted: on to the channel
            /\ subPc' = [subPc EXCEPT ![s] = "live"]
            /\ IF subQueue[s] # <<>>
               THEN TakeFrame(s)
               ELSE UNCHANGED <<delivered, subQueue>>
            /\ UNCHANGED <<subIter, subscribers>>
       ELSE /\ subIter' = [subIter EXCEPT ![s].pos = @ + 1]
            /\ delivered' = [delivered EXCEPT
                   ![s] = Append(@, EntryFrame("log", logs[subIter[s].pos + 1]))]
            /\ UNCHANGED <<subPc, subscribers, subQueue>>
    /\ UNCHANGED <<storeVars, subSnap, sinkVars, proxyVars, fnVars>>

\* while True: msg = await queue.get(); yield the frame
Deliver(s) ==
    /\ subPc[s] = "live"
    /\ subQueue[s] # <<>>
    /\ TakeFrame(s)
    /\ UNCHANGED <<storeVars, subscribers, subPc, subIter, subSnap, sinkVars, proxyVars, fnVars>>

\* the client goes away: finally: _subscribers.remove(queue)
Unsubscribe(s) ==
    /\ subPc[s] \in {"replay", "live"}
    /\ subPc' = [subPc EXCEPT ![s] = "closed"]
    /\ subscribers' = subscribers \ {s}
    /\ UNCHANGED <<storeVars, subQueue, subIter, subSnap, delivered, sinkVars, proxyVars, fnVars>>

(***************************************************************************)
(* The Log Store's API called directly                                     *)
(***************************************************************************)
CallAddLog(a) ==
    /\ AddLog(a)
    /\ calls' = calls + 1
    /\ UNCHANGED <<subscribers, subPc, subIter, subSnap, delivered, sinkVars, proxyVars, fnVars>>

CallUpdateTraceUrl(eid, url) ==
    /\ UpdateTraceUrl(eid, url)
    /\ calls' = calls + 1
    /\ UNCHANGED <<logs, logsById, nextId, dequeState>>
    /\ UNCHANGED <<subscribers, subPc, subIter, subSnap, delivered, sinkVars, proxyVars, fnVars>>

CallUpdateLogEntry(eid, u) ==
    /\ UpdateLogEntry(eid, u)
    /\ calls' = calls + 1
    /\ UNCHANGED <<logs, logsById, nextId, dequeState>>
    /\ UNCHANGED <<subscribers, subPc, subIter, subSnap, delivered, sinkVars, proxyVars, fnVars>>

(***************************************************************************)
(* Sink worker: weave_log.py                                               *)
(***************************************************************************)
NoTask == [tid |-> 0, eid |-> 0]

\* a plausible slip: `await self._queue.put(task)`, which waits for room
SinkPutWaits(q, task) ==
    IF Len(q) >= SinkQueueCap
    THEN [queue |-> q, outcome |-> "blocked"]
    ELSE [queue |-> Append(q, task), outcome |-> "queued"]

\* try: self._queue.put_nowait(task)  except asyncio.QueueFull: (warn)
SinkPut(q, task) ==
    IF Len(q) >= SinkQueueCap
    THEN [queue |-> q, outcome |-> "dropped"]
    ELSE [queue |-> Append(q, task), outcome |-> "queued"]

\* log_async(..., trace_callback=lambda url, eid=entry_id: update_trace_url(eid, url))
LogAsync(eid) ==
    LET task == [tid |-> sinkCalls + 1, eid |-> eid]
        put == SinkPut(sinkQueue, task)
    IN  /\ sinkQueue' = put.queue
        /\ unfinished' = IF put.outcome = "queued" THEN unfinished + 1 ELSE unfinished
        /\ sinkCalls' = sinkCalls + 1
        /\ putLog' = IF put.outcome = "queued" THEN putLog
                     ELSE putLog \cup {[tid |-> task.tid, outcome |-> put.outcome,
                                        qlen |-> Len(sinkQueue)]}
        /\ UNCHANGED <<sinkInit, warned, workerPc, workerCur, taken, cbCalls>>

\* what the sink does to one task: the project variables, weave.init, weave.log_call
InitOutcomes == {"noproject", "raises", "ok"}
LogOutcomes == {"url", "nourl", "raises"}

\* WeaveLogger.__init__: self._initialized = False, self._failed = False
Uninit == [initialized |-> FALSE, failed |-> FALSE]

\* _ensure_init() goes past its first return: the project is resolved and,
\* if there is one, weave.init is called
InitAttempted(st) == ~(st.initialized \/ st.failed)

\* a plausible slip: a failed initialization is tried again by the next task
EnsureInitRetries(st, io) ==
    IF st.initialized THEN st
    ELSE IF io = "ok" THEN [st EXCEPT !.initialized = TRUE]
    ELSE [st EXCEPT !.failed = TRUE]

\* _ensure_init(): the flags of the logger afterwards; it returns
\* _initialized
EnsureInit(st, io) ==
    IF st.initialized \/ st.failed THEN st
    ELSE IF io = "ok" THEN [st EXCEPT !.initialized = TRUE]
    ELSE [st EXCEPT !.failed = TRUE]

\* a plausible slip: the result of _ensure_init() is not consulted
DoLogSyncUnchecked(st, io, lo) ==
    IF lo = "url" THEN "https://wandb.ai/call/1" ELSE None

\* _do_log_sync(task): the trace URL, or None
DoLogSync(st, io, lo) ==
    IF ~EnsureInit(st, io).initialized THEN None
    ELSE IF lo = "url" THEN "https://wandb.ai/call/1" ELSE None

\* _warned after _do_log_sync(task)
WarnedAfter(st, io, lo) ==
    \/ warned
    \/ InitAttempted(st) /\ io # "ok"
    \/ EnsureInit(st, io).initialized /\ lo = "raises"

\* how _do_log_sync(task) went: initialization failed (now or before), the
\* submission raised, or the call was logged
SinkOutcome(st, io, lo) ==
    IF ~EnsureInit(st, io).initialized THEN "init_failed"
    ELSE IF lo = "raises" THEN "log_failed" ELSE "logged"

\* start(): asyncio.create_task(self._worker())
WorkerStart ==
    /\ workerPc = "none"
    /\ workerPc' = "get"
    /\ UNCHANGED <<sinkQueue, unfinished, sinkInit, warned, workerCur, sinkCalls,
                   putLog, taken, cbCalls>>
    /\ UNCHANGED <<storeVars, subVars, proxyVars, fnVars>>

\* task = await self._queue.get(), then the call is handed to the executor
WorkerTake ==
    /\ workerPc = "get"
    /\ sinkQueue # <<>>
    /\ workerCur' = Head(sinkQueue)
    /\ sinkQueue' = Tail(sinkQueue)
    /\ taken' = Append(taken, Head(sinkQueue).tid)
    /\ workerPc' = "executor"
    /\ UNCHANGED <<unfinished, sinkInit, warned, sinkCalls, putLog, cbCalls>>
    /\ UNCHANGED <<storeVars, subVars, proxyVars, fnVars>>

\* a plausible slip: a task whose logging failed is put back on the queue
WorkerFinishRetries(io, lo) ==
    LET url == DoLogSync(sinkInit, io, lo)
        failed == SinkOutcome(sinkInit, io, lo) # "logged"
    IN  /\ workerPc = "executor"
        /\ sinkInit' = EnsureInit(sinkInit, io)
        /\ warned' = WarnedAfter(sinkInit, io, lo)
        /\ UpdateTraceUrl(workerCur.eid, url)
        /\ cbCalls' = Append(cbCalls, [tid |-> workerCur.tid, eid |-> workerCur.eid,
                                       url |-> url,
                                       attempt |-> InitAttempted(sinkInit),
                                       outcome |-> SinkOutcome(sinkInit, io, lo)])
        /\ sinkQueue' = IF failed THEN Append(sinkQueue, workerCur) ELSE sinkQueue
        /\ unfinished' = IF failed THEN unfinished ELSE unfinished - 1
        /\ workerCur' = NoTask
        /\ workerPc' = "get"
        /\ UNCHANGED <<sinkCalls, putLog, taken>>
        /\ UNCHANGED <<logs, logsById, nextId, dequeState, calls>>
        /\ UNCHANGED <<subscribers, subPc, subIter, subSnap, delivered, proxyVars, fnVars>>

\* run_in_executor returns: the callback, then task_done()
WorkerFinish(io, lo) ==
    LET url == DoLogSync(sinkInit, io, lo)
    IN  /\ workerPc = "executor"
        /\ sinkInit' = EnsureInit(sinkInit, io)
        /\ warned' = WarnedAfter(sinkInit, io, lo)
        /\ UpdateTraceUrl(workerCur.eid, url)
        /\ cbCalls' = Append(cbCalls, [tid |-> workerCur.tid, eid |-> workerCur.eid,
                                       url |-> url,
                                       attempt |-> InitAttempted(sinkInit),
                                       outcome |-> SinkOutcome(sinkInit, io, lo)])
        /\ unfinished' = unfinished - 1
        /\ workerCur' = NoTask
        /\ workerPc' = "get"
        /\ UNCHANGED <<sinkQueue, sinkCalls, putLog, taken>>
        /\ UNCHANGED <<logs, logsById, nextId, dequeState, calls>>
        /\ UNCHANGED <<subscribers, subPc, subIter, subSnap, delivered, proxyVars, fnVars>>

\* log_async called directly
CallLogAsync(eid) ==
    /\ LogAsync(eid)
    /\ UNCHANGED <<storeVars, subVars, proxyVars, fnVars>>

InitSink ==
    /\ sinkQueue = <<>>
    /\ unfinished = 0
    /\ sinkInit = Uninit
    /\ warned = FALSE
    /\ workerPc = "none"
    /\ workerCur = NoTask
    /\ sinkCalls = 0
    /\ putLog = {}
    /\ taken = <<>>
    /\ cbCalls = <<>>

(***************************************************************************)
(* Request pipeline: proxy.py                                              *)
(***************************************************************************)

\* HOP_BY_HOP_HEADERS
HopByHop ==
    {"connection", "keep-alive", "proxy-authenticate", "proxy-authorization",
     "te", "trailers", "transfer-encoding", "upgrade", "content-encoding"}

\* str.lower() on the header names of the model
Lower(h) ==
    CASE h = "Content-Type" -> "content-type"
      [] h = "Connection" -> "connection"
      [] h = "Transfer-Encoding" -> "transfer-encoding"
      [] h = "Cache-Control" -> "cache-control"
      [] h = "X-Accel-Buffering" -> "x-accel-buffering"
      [] h = "Host" -> "host"
      [] h = "Content-Length" -> "content-length"
      [] h = "Authorization" -> "authorization"
      [] h = "Traceparent" -> "traceparent"
      [] h = "X-Trace-Id" -> "x-trace-id"
      [] h = "X-Request-Id" -> "x-request-id"
      [] OTHER -> h

\* _filter_headers(headers)
FilterHeaders(hs) == {h \in hs : Lower(h) \notin HopByHop}

\* the header names a response goes out with (Starlette lower-cases them)
Sent(hs) == {Lower(h) : h \in hs}

\* request bodies
BodyStream == [json |-> "dict", stream |-> "true"]
BodyPlain == [json |-> "dict", stream |-> "absent"]
BodyBad == [json |-> "invalid", stream |-> "absent"]
Bodies == {BodyStream, BodyPlain, BodyBad}

\* _is_streaming_request(body)
IsStreamingRequest(b) == b.json = "dict" /\ b.stream = "true"

\* _parse_json(data)
ParseJson(b) == IF b.json \in {"invalid", "empty"} THEN NoBody ELSE JsonBody(b)

\* what upstream answers a non-streaming call with
UpResponses ==
    { [status |-> 200, headers |-> {"content-type"}, content |-> BodyPlain],
      [status |-> 500,
       headers |-> {"Content-Type", "Connection", "Transfer-Encoding",
                    "content-encoding", "x-request-id"},
       content |-> BodyBad] }

NoResponse == [status |-> 0, headers |-> {}, body |-> None]

\* what the framework answers when a handler raises
ServerError == [status |-> 500, headers |-> {"content-type"}, body |-> "Internal Server Error"]

\* a plausible slip: every upstream failure answered 502
FailureResponseAll502(out) ==
    [status |-> 502, headers |-> {"content-length"}, body |-> "Request failed"]

\* _do_proxy's except clauses: TimeoutException, ConnectError, Exception
FailureResponse(out) ==
    IF out = "timeout"
    THEN [status |-> 504, headers |-> {"content-length"}, body |-> "Upstream timeout"]
    ELSE IF out = "connect"
    THEN [status |-> 502, headers |-> {"content-length"}, body |-> "Connection failed"]
    ELSE [status |-> 502, headers |-> {"content-length"}, body |-> "Request failed"]

\* Response(content=content, status_code=resp.status_code,
\*          headers=_filter_headers(resp.headers), media_type=...)
ForwardResponse(up) ==
    [status |-> up.status,
     headers |-> Sent(FilterHeaders(up.headers)) \cup {"content-length"},
     body |-> up.content]

\* StreamingResponse(stream_generator(), media_type="text/event-stream", headers={...})
StreamResponse ==
    [status |-> 200,
     headers |-> Sent({"Cache-Control", "Connection", "X-Accel-Buffering"})
                     \cup {"content-type"},
     body |-> "stream"]

\* the parameters of dashboard.add_log, and those without a default
AddLogParams ==
    {"path", "model", "status_code", "latency_ms", "upstream", "trace_url",
     "trace_pending", "request_body", "response_body"}
AddLogRequired == {"path", "model", "status_code", "latency_ms", "upstream"}

\* the keyword arguments _do_proxy and _do_streaming_proxy call it with
ProxyAddLogKwargs ==
    {"path", "model", "status_code", "latency_ms", "upstream", "trace_url",
     "trace_pending", "request_body", "response_body", "provider", "trace_id",
     "span_id", "parent_span_id", "debug_mode"}

\* the call binds: no unexpected keyword, no required one missing (else TypeError)
Binds(kwargs) == kwargs \subseteq AddLogParams /\ AddLogRequired \subseteq kwargs

\* the lines of SSE text: one `data: ` event with one choice, the [DONE]
\* sentinel, a `data: ` line that is no JSON, any other line
EvHi == [kind |-> "event", id |-> "x", model |-> None, content |-> <<"H", "i">>,
         finish |-> None, usage |-> None, error |-> None]
EvBang == [kind |-> "event", id |-> None, model |-> "m", content |-> <<"!">>,
           finish |-> "stop", usage |-> None, error |-> None]
LnDone == [kind |-> "done", id |-> None, model |-> None, content |-> <<>>,
           finish |-> None, usage |-> None, error |-> None]
LnBlank == [kind |-> "other", id |-> None, model |-> None, content |-> <<>>,
            finish |-> None, usage |-> None, error |-> None]
EvError(msg) == [kind |-> "event", id |-> None, model |-> None, content |-> <<>>,
                 finish |-> None, usage |-> None, error |-> msg]

\* the chunks upstream sends, each the lines of its text
Chunks == { <<EvHi, LnBlank, LnBlank>>, <<EvBang, LnBlank, LnDone, LnBlank>> }

\* the error frames stream_generator yields: b'data: {"error": "..."}\n\n'
ErrFrame(out) ==
    IF out = "timeout" THEN <<EvError("Upstream timeout"), LnBlank, LnBlank>>
    ELSE IF out = "connect" THEN <<EvError("Connection failed"), LnBlank, LnBlank>>
    ELSE <<EvError("Request failed"), LnBlank, LnBlank>>

ErrFrames == {ErrFrame(o) : o \in {"timeout", "connect", "other"}}

RECURSIVE Flatten(_)
Flatten(chunks) ==
    IF chunks = <<>> THEN <<>> ELSE Head(chunks) \o Flatten(Tail(chunks))

\* a `data: ` line whose JSON is not an object with a list of choice objects
\* (`data: 5`): data.get raises, which no inner except clause catches
LnMalformed == [kind |-> "malformed", id |-> None, model |-> None,
                content |-> <<>>, finish |-> None, usage |-> None,
                error |-> None]

\* _parse_sse_chunks: the loop over the lines of one chunk; an exception
\* other than JSONDecodeError leaves the loop
RECURSIVE SseFold(_, _)
SseFold(acc, lines) ==
    IF lines = <<>> THEN acc
    ELSE LET l == Head(lines)
             a1 == IF l.kind # "event" THEN acc
                   ELSE [id |-> IF acc.id = None THEN l.id ELSE acc.id,
                         model |-> IF acc.model = None THEN l.model ELSE acc.model,
                         content |-> acc.content \o l.content,
                         finish |-> IF l.finish # None THEN l.finish ELSE acc.finish,
                         usage |-> IF l.usage # None THEN l.usage ELSE acc.usage]
         IN  IF l.kind = "malformed" THEN acc ELSE SseFold(a1, Tail(lines))

\* for chunk in chunks: try: ... except Exception: pass
RECURSIVE SseChunks(_, _)
SseChunks(acc, chunks) ==
    IF chunks = <<>> THEN acc
    ELSE SseChunks(SseFold(acc, Head(chunks)), Tail(chunks))

\* _parse_sse_chunks(chunks), and the two timings the finally block adds
ParseSseChunks(chunks) ==
    LET acc == SseChunks([id |-> None, model |-> None, content |-> <<>>,
                          finish |-> None, usage |-> None], chunks)
    IN  IF acc.content = <<>> /\ acc.id = None THEN NoBody
        ELSE [kind |-> "streamed", id |-> acc.id, model |-> acc.model,
              content |-> acc.content, finish_reason |-> acc.finish,
              usage |-> acc.usage]

NoState == [chunks |-> <<>>, status_code |-> 200, headers |-> {}, error |-> None]

StoreUntouched == UNCHANGED <<logs, logsById, ent, nextId, dequeState, emitted, subQueue>>
SinkUntouched == UNCHANGED sinkVars
BystandersUntouched ==
    UNCHANGED <<calls, subscribers, subPc, subIter, subSnap, delivered, fnVars>>

\* a request reaches _do_proxy: `body = await request.body()`
Arrive(r, capture, body, debug) ==
    /\ rpc[r] = "new"
    /\ rin' = [rin EXCEPT ![r] = [capture |-> capture, body |-> body, debug |-> debug]]
    /\ rpc' = [rpc EXCEPT ![r] = "body"]
    /\ UNCHANGED <<response, client, sstate, upSeq, upResp, upOutcome, reqEntry, attempted>>
    /\ StoreUntouched /\ SinkUntouched /\ BystandersUntouched

\* the body is read. A streaming request runs _do_streaming_proxy up to its
\* return; any other goes on to `await _client.request(...)`
DoProxy(r) ==
    /\ rpc[r] = "body"
    /\ IF ~IsStreamingRequest(rin[r].body)
       THEN /\ rpc' = [rpc EXCEPT ![r] = "upstream"]
            /\ UNCHANGED <<response, reqEntry, attempted>>
            /\ StoreUntouched
       ELSE IF ~rin[r].capture
       THEN /\ rpc' = [rpc EXCEPT ![r] = "sse_ready"]
            /\ response' = [response EXCEPT ![r] = StreamResponse]
            /\ UNCHANGED <<reqEntry, attempted>>
            /\ StoreUntouched
       ELSE /\ attempted' = [attempted EXCEPT ![r] = @ + 1]
            /\ IF Binds(ProxyAddLogKwargs)
               THEN /\ AddLog([path |-> "/v1/chat/completions", status_code |-> 200,
                               latency_ms |-> 0, trace_pending |-> ~rin[r].debug,
                               request_body |-> ParseJson(rin[r].body),
                               response_body |-> InProgress])
                    /\ reqEntry' = [reqEntry EXCEPT ![r] = nextId]
                    /\ rpc' = [rpc EXCEPT ![r] = "sse_ready"]
                    /\ response' = [response EXCEPT ![r] = StreamResponse]
               ELSE \* TypeError: add_log() got an unexpected keyword argument
                    /\ rpc' = [rpc EXCEPT ![r] = "raised"]
                    /\ response' = [response EXCEPT ![r] = ServerError]
                    /\ UNCHANGED reqEntry
                    /\ StoreUntouched
    /\ UNCHANGED <<rin, client, sstate, upSeq, upResp, upOutcome>>
    /\ SinkUntouched /\ BystandersUntouched

\* `await _client.request(...)` ends: an exception, or the upstream response,
\* which is logged when capturable and then returned
ForwardReturn(r, out, up) ==
    /\ rpc[r] = "upstream"
    /\ upOutcome' = [upOutcome EXCEPT ![r] = out]
    /\ IF out # "ok"
       THEN /\ response' = [response EXCEPT ![r] = FailureResponse(out)]
            /\ rpc' = [rpc EXCEPT ![r] = "done"]
            /\ UNCHANGED <<upResp, reqEntry, attempted>>
            /\ StoreUntouched /\ SinkUntouched
       ELSE /\ upResp' = [upResp EXCEPT ![r] = up]
            /\ IF ~rin[r].capture
               THEN /\ response' = [response EXCEPT ![r] = ForwardResponse(up)]
                    /\ rpc' = [rpc EXCEPT ![r] = "done"]
                    /\ UNCHANGED <<reqEntry, attempted>>
                    /\ StoreUntouched /\ SinkUntouched
               ELSE /\ attempted' = [attempted EXCEPT ![r] = @ + 1]
                    /\ IF Binds(ProxyAddLogKwargs)
                       THEN /\ AddLog([path |-> "/v1/chat/completions",
                                       status_code |-> up.status, latency_ms |-> 1234,
                                       trace_pending |-> ~rin[r].debug,
                                       request_body |-> ParseJson(rin[r].body),
                                       response_body |-> ParseJson(up.content)])
                            /\ reqEntry' = [reqEntry EXCEPT ![r] = nextId]
                            /\ IF ~rin[r].debug THEN LogAsync(nextId) ELSE SinkUntouched
                            /\ response' = [response EXCEPT ![r] = ForwardResponse(up)]
                            /\ rpc' = [rpc EXCEPT ![r] = "done"]
                       ELSE \* TypeError: add_log() got an unexpected keyword argument
                            /\ rpc' = [rpc EXCEPT ![r] = "raised"]
                            /\ response' = [response EXCEPT ![r] = ServerError]
                            /\ UNCHANGED reqEntry
                            /\ StoreUntouched /\ SinkUntouched
    /\ UNCHANGED <<rin, client, sstate, upSeq>>
    /\ BystandersUntouched

\* a plausible slip: chunks held back instead of yielded as they arrive
StreamYieldHeld(out, chunk) == out

\* `yield chunk`
StreamYield(out, chunk) == Append(out, chunk)

\* a plausible slip: the finally block without its `if should_capture and
\* entry_id` guard
FinalizeUnguarded(r, st) ==
    /\ UpdateLogEntry(reqEntry[r],
                      [response_body |-> ParseSseChunks(st.chunks),
                       latency_ms |-> 456, status_code |-> st.status_code])
    /\ IF ~rin[r].debug THEN LogAsync(reqEntry[r]) ELSE SinkUntouched
    /\ UNCHANGED <<logs, logsById, nextId, dequeState>>

\* the finally block of stream_generator
Finalize(r, st) ==
    IF rin[r].capture /\ reqEntry[r] # 0
    THEN /\ UpdateLogEntry(reqEntry[r],
                           [response_body |-> ParseSseChunks(st.chunks),
                            latency_ms |-> 456, status_code |-> st.status_code])
         /\ IF ~rin[r].debug THEN LogAsync(reqEntry[r]) ELSE SinkUntouched
         /\ UNCHANGED <<logs, logsById, nextId, dequeState>>
    ELSE StoreUntouched /\ SinkUntouched

\* the generator starts: `async with _client.stream(...) as resp`
StreamOpen(r, out, up) ==
    /\ rpc[r] = "sse_ready"
    /\ IF out = "ok"
       THEN /\ sstate' = [sstate EXCEPT ![r].status_code = up.status,
                                        ![r].headers = up.headers]
            /\ rpc' = [rpc EXCEPT ![r] = "streaming"]
            /\ UNCHANGED <<client, upOutcome>>
       ELSE /\ sstate' = [sstate EXCEPT ![r].error = out]
            /\ upOutcome' = [upOutcome EXCEPT ![r] = out]
            /\ client' = [client EXCEPT ![r] = Append(@, ErrFrame(out))]
            /\ rpc' = [rpc EXCEPT ![r] = "errframe"]
    /\ UNCHANGED <<rin, response, upSeq, upResp, reqEntry, attempted>>
    /\ StoreUntouched /\ SinkUntouched /\ BystandersUntouched

\* `async for chunk in resp.aiter_bytes()`: a chunk arrives, is appended and yielded
StreamNext(r, chunk) ==
    /\ rpc[r] = "streaming"
    /\ upSeq' = [upSeq EXCEPT ![r] = Append(@, chunk)]
    /\ sstate' = [sstate EXCEPT ![r].chunks = Append(@, chunk)]
    /\ client' = [client EXCEPT ![r] = StreamYield(@, chunk)]
    /\ UNCHANGED <<rpc, rin, response, upResp, upOutcome, reqEntry, attempted>>
    /\ StoreUntouched /\ SinkUntouched /\ BystandersUntouched

\* the read of the next chunk raises: the error frame is yielded
StreamFail(r, out) ==
    /\ rpc[r] = "streaming"
    /\ out # "ok"
    /\ sstate' = [sstate EXCEPT ![r].error = out]
    /\ upOutcome' = [upOutcome EXCEPT ![r] = out]
    /\ client' = [client EXCEPT ![r] = Append(@, ErrFrame(out))]
    /\ rpc' = [rpc EXCEPT ![r] = "errframe"]
    /\ UNCHANGED <<rin, response, upSeq, upResp, reqEntry, attempted>>
    /\ StoreUntouched /\ SinkUntouched /\ BystandersUntouched

\* upstream ends the stream: the finally block runs
StreamEnd(r) ==
    /\ rpc[r] = "streaming"
    /\ upOutcome' = [upOutcome EXCEPT ![r] = "ok"]
    /\ rpc' = [rpc EXCEPT ![r] = "done"]
    /\ Finalize(r, sstate[r])
    /\ UNCHANGED <<rin, response, client, sstate, upSeq, upResp, reqEntry, attempted>>
    /\ BystandersUntouched

\* the generator resumes after the error frame: the finally block runs
StreamErrEnd(r) ==
    /\ rpc[r] = "errframe"
    /\ rpc' = [rpc EXCEPT ![r] = "done"]
    /\ Finalize(r, sstate[r])
    /\ UNCHANGED <<rin, response, client, sstate, upSeq, upResp, upOutcome, reqEntry,
                   attempted>>
    /\ BystandersUntouched

\* the client disconnects mid-stream: the generator, suspended at a yield or at
\* the read of the next chunk, is cancelled or closed (CancelledError and
\* GeneratorExit are no Exception: no except clause runs), the finally block runs
StreamDisconnect(r) ==
    /\ rpc[r] \in {"streaming", "errframe"}
    /\ upOutcome' = [upOutcome EXCEPT ![r] = IF rpc[r] = "streaming" THEN "cancelled" ELSE @]
    /\ rpc' = [rpc EXCEPT ![r] = "gone"]
    /\ Finalize(r, sstate[r])
    /\ UNCHANGED <<rin, response, client, sstate, upSeq, upResp, reqEntry, attempted>>
    /\ BystandersUntouched

InitProxy ==
    /\ rpc = [r \in Reqs |-> "new"]
    /\ rin = [r \in Reqs |-> [capture |-> FALSE, body |-> BodyPlain, debug |-> FALSE]]
    /\ response = [r \in Reqs |-> NoResponse]
    /\ client = [r \in Reqs |-> <<>>]
    /\ sstate = [r \in Reqs |-> NoState]
    /\ upSeq = [r \in Reqs |-> <<>>]
    /\ upResp = [r \in Reqs |-> NoResponse]
    /\ upOutcome = [r \in Reqs |-> None]
    /\ reqEntry = [r \in Reqs |-> 0]
    /\ attempted = [r \in Reqs |-> 0]

(***************************************************************************)
(* Provider Matcher: config.py                                             *)
(***************************************************************************)
\* strings are sequences of characters
StartsWith(str, p) == Len(p) <= Len(str) /\ SubSeq(str, 1, Len(p)) = p
EndsWith(str, p) ==
    Len(p) <= Len(str) /\ SubSeq(str, Len(str) - Len(p) + 1, Len(str)) = p

\* str.split("?")[0]
RECURSIVE BeforeQuery(_)
BeforeQuery(str) ==
    IF str = <<>> \/ Head(str) = "?" THEN <<>>
    ELSE <<Head(str)>> \o BeforeQuery(Tail(str))

\* the case folding of re.IGNORECASE on the letters of the model
Fold(c) == IF c = "X" THEN "x" ELSE IF c = "Y" THEN "y" ELSE c
FoldAll(str) == [i \in 1 .. Len(str) |-> Fold(str[i])]

\* re.search(pattern, string[, re.IGNORECASE]) for the patterns of the model:
\* a literal, anchored by ^ and by $ or not
RECURSIVE SearchFrom(_, _)
SearchFrom(str, lit) ==
    IF StartsWith(str, lit) THEN TRUE
    ELSE IF str = <<>> THEN FALSE
    ELSE SearchFrom(Tail(str), lit)

ReSearch(pat, str, ignorecase) ==
    LET t == IF ignorecase THEN FoldAll(str) ELSE str
        l == IF ignorecase THEN FoldAll(pat.lit) ELSE pat.lit
    IN  IF pat.bol /\ pat.eol THEN t = l
        ELSE IF pat.bol THEN StartsWith(t, l)
        ELSE IF pat.eol THEN EndsWith(t, l)
        ELSE SearchFrom(t, l)

\* a pattern string: the literal and its anchors (a suffix pattern has none)
Lit(l) == [lit |-> l, bol |-> FALSE, eol |-> FALSE]
LitEol(l) == [lit |-> l, bol |-> FALSE, eol |-> TRUE]

\* ProviderPattern.matches_path(path): the loop over path_patterns
RECURSIVE AnyPathPattern(_, _, _)
AnyPathPattern(pats, is_regex, normalized) ==
    IF pats = <<>> THEN FALSE
    ELSE IF is_regex /\ ReSearch(Head(pats), normalized, FALSE) THEN TRUE
    ELSE IF ~is_regex /\ (\/ EndsWith(normalized, Head(pats).lit)
                         \/ EndsWith(BeforeQuery(normalized), Head(pats).lit)) THEN TRUE
    ELSE AnyPathPattern(Tail(pats), is_regex, normalized)

MatchesPath(p, path) ==
    IF path = <<>> THEN FALSE
    ELSE LET normalized == IF Head(path) = "/" THEN path ELSE <<"/">> \o path
         IN  AnyPathPattern(p.path_patterns, p.is_regex, normalized)

\* ProviderPattern.matches_host(host): the loop over host_patterns
RECURSIVE AnyHostPattern(_, _)
AnyHostPattern(pats, host) ==
    IF pats = <<>> THEN FALSE
    ELSE IF ReSearch(Head(pats), host, TRUE) THEN TRUE
    ELSE AnyHostPattern(Tail(pats), host)

\* a plausible slip: an empty host is searched like any other
MatchesHostStrict(p, host) ==
    IF p.host_patterns = <<>> THEN TRUE ELSE AnyHostPattern(p.host_patterns, host)

MatchesHost(p, host) ==
    IF host = <<>> \/ p.host_patterns = <<>> THEN TRUE
    ELSE AnyHostPattern(p.host_patterns, host)

\* `provider.matches_path(path) and provider.matches_host(host)`
Matches(p, path, host) == MatchesPath(p, path) /\ MatchesHost(p, host)

\* a plausible slip: no return inside the loop, the last match wins
RECURSIVE LastMatch(_, _, _)
LastMatch(providers, path, host) ==
    IF providers = <<>> THEN <<FALSE, None>>
    ELSE LET rest == LastMatch(Tail(providers), path, host)
         IN  IF rest[1] THEN rest
             ELSE IF Matches(Head(providers), path, host)
             THEN <<TRUE, Head(providers).name>> ELSE <<FALSE, None>>

IsCapturableLastWins(cfg, path, host) ==
    IF cfg.capture_all_requests THEN <<TRUE, "custom">>
    ELSE LastMatch(cfg.providers, path, host)

\* Config.is_capturable(path, host): the loop over providers
RECURSIVE FirstMatch(_, _, _)
FirstMatch(providers, path, host) ==
    IF providers = <<>> THEN <<FALSE, None>>
    ELSE IF Matches(Head(providers), path, host) THEN <<TRUE, Head(providers).name>>
    ELSE FirstMatch(Tail(providers), path, host)

IsCapturable(cfg, path, host) ==
    IF cfg.capture_all_requests THEN <<TRUE, "custom">>
    ELSE FirstMatch(cfg.providers, path, host)

\* the inputs: providers in regex and in suffix mode, with and without host
\* patterns; paths with and without leading slash and query string; hosts
Providers ==
    { [name |-> "openai", path_patterns |-> <<Lit(<<"/", "a">>)>>,
       host_patterns |-> <<Lit(<<"x">>), Lit(<<"y">>)>>, is_regex |-> TRUE],
      [name |-> "mine", path_patterns |-> <<Lit(<<"b">>), Lit(<<"/", "a">>)>>,
       host_patterns |-> <<>>, is_regex |-> FALSE],
      [name |-> "google_adk", path_patterns |-> <<LitEol(<<"/", "b">>)>>,
       host_patterns |-> <<Lit(<<"Y">>)>>, is_regex |-> TRUE],
      [name |-> "root", path_patterns |-> <<Lit(<<"/">>)>>,
       host_patterns |-> <<Lit(<<"x">>)>>, is_regex |-> FALSE] }

ProviderLists ==
    {<<>>} \cup {<<p>> : p \in Providers}
           \cup {<<p, q>> : p, q \in Providers}

Configs ==
    [providers : ProviderLists, capture_all_requests : BOOLEAN]

Paths ==
    { <<>>, <<"/">>, <<"/", "a">>, <<"a">>, <<"/", "a", "?", "b">>,
      <<"/", "b", "?", "a">>, <<"/", "a", "/", "b">>, <<"/", "b", "/">> }

Hosts == { <<>>, <<"x">>, <<"X">>, <<"z", "Y">>, <<"z">> }

NoRet == [result |-> <<FALSE, None>>, matches |-> <<>>]

\* config.is_capturable(path, host)
CallIsCapturable ==
    /\ "is_capturable" \notin fpc
    /\ ret' = [ret EXCEPT !.result = IsCapturable(arg.cfg, arg.path, arg.host)]
    /\ fpc' = fpc \cup {"is_capturable"}
    /\ UNCHANGED <<arg, storeVars, subVars, sinkVars, proxyVars>>

\* every provider of the config asked whether it matches (path, host)
CallMatches ==
    /\ "matches" \notin fpc
    /\ ret' = [ret EXCEPT !.matches =
                  [i \in 1 .. Len(arg.cfg.providers) |->
                      Matches(arg.cfg.providers[i], arg.path, arg.host)]]
    /\ fpc' = fpc \cup {"matches"}
    /\ UNCHANGED <<arg, storeVars, subVars, sinkVars, proxyVars>>

InitFn ==
    /\ arg = [cfg |-> [providers |-> <<>>, capture_all_requests |-> FALSE],
              path |-> <<>>, host |-> <<>>]
    /\ ret = NoRet
    /\ fpc = {}

DrawnMatch ==
    /\ arg \in [cfg : Configs, path : Paths, host : Hosts]
    /\ ret = NoRet
    /\ fpc = {}

(***************************************************************************)
(* Dispatcher and Upstream Resolver: proxy.py, upstream.py                 *)
(***************************************************************************)
HTTP == <<"h", "t", "t", "p", ":", "/", "/">>
HTTPS == <<"h", "t", "t", "p", "s", ":", "/", "/">>
WEAVERUN == <<"_", "_", "w", "e", "a", "v", "e", "r", "u", "n", "_", "_">>
PROXY_PATH == <<"/", "_", "_", "p", "r", "o", "x", "y", "_", "_">>
DASHBOARD_PATH == <<"/">> \o WEAVERUN
EVENTS_PATH == DASHBOARD_PATH \o <<"/", "e", "v", "e", "n", "t", "s">>

DEFAULT_UPSTREAM ==
    HTTPS \o <<"a", "p", "i", ".", "o", "p", "e", "n", "a", "i", ".",
               "c", "o", "m", "/", "v", "1">>

\* str.rstrip('/')
RECURSIVE RStrip(_)
RStrip(str) ==
    IF str # <<>> /\ str[Len(str)] = "/"
    THEN RStrip(SubSeq(str, 1, Len(str) - 1))
    ELSE str

\* os.getenv(name): a variable is unset (None) or holds a string
Unset == [set |-> FALSE, val |-> <<>>]
EnvStr(str) == [set |-> TRUE, val |-> str]

\* truth of `if original:` : None and "" are both false
Truthy(v) == v.set /\ v.val # <<>>

ResolveOverrideFirst(path, env) ==
    IF StartsWith(path, HTTP) \/ StartsWith(path, HTTPS) THEN path
    ELSE IF ~Truthy(env.original) /\ ~Truthy(env.fallback)
         THEN DEFAULT_UPSTREAM \o <<"/">> \o path
    ELSE IF Truthy(env.fallback)
         THEN env.fallback.val \o <<"/">> \o path
    ELSE env.original.val \o <<"/">> \o path
\* resolve_upstream(path), the environment read at the call
ResolveUpstream(path, env) ==
    IF StartsWith(path, HTTP) \/ StartsWith(path, HTTPS) THEN path
    ELSE IF Truthy(env.original)
         THEN RStrip(env.original.val) \o <<"/">> \o path
    ELSE IF Truthy(env.fallback)
         THEN RStrip(env.fallback.val) \o <<"/">> \o path
    ELSE DEFAULT_UPSTREAM \o <<"/">> \o path

NoProxyUrl == <<>>

ProxyAppCallVerbatim(path) ==
    [path |-> PROXY_PATH, proxy_url |-> path]
\* ProxyApp.__call__: the scope handed to the inner application
ProxyAppCall(path) ==
    IF StartsWith(path, HTTP) \/ StartsWith(path, HTTPS)
    THEN [path |-> PROXY_PATH, proxy_url |-> path]
    ELSE IF StartsWith(path, <<"/", "/">>)
    THEN [path |-> PROXY_PATH,
          proxy_url |-> <<"h", "t", "t", "p", ":">> \o path]
    ELSE IF StartsWith(path, <<"/">> \o HTTP)
            \/ StartsWith(path, <<"/">> \o HTTPS)
    THEN [path |-> PROXY_PATH, proxy_url |-> Tail(path)]
    ELSE [path |-> path, proxy_url |-> NoProxyUrl]

\* what a handler does with the request: answer it locally or hand it to
\* _do_proxy with an upstream URL
Local(kind, status) == [kind |-> kind, status |-> status, url |-> <<>>]
Forward(url) == [kind |-> "forward", status |-> NoneNum, url |-> url]
NoAnswer == Local("none", NoneNum)

\* proxy_handler(request), the HTTP client started
ProxyHandler(scope) ==
    IF scope.proxy_url = NoProxyUrl THEN Local("proxy_handler", 400)
    ELSE Forward(scope.proxy_url)

\* proxy(path, request), the HTTP client started; resolve_upstream raises
\* nothing
ProxyRoute(path, env) ==
    IF StartsWith(path, WEAVERUN) THEN Local("proxy", 404)
    ELSE Forward(ResolveUpstream(path, env))

\* the routes of inner_app in the order they are registered: the dashboard
\* router, /__proxy__, /{path:path}
Dispatch(method, scope, env) ==
    IF method = "GET" /\ scope.path \in {DASHBOARD_PATH, EVENTS_PATH}
    THEN Local("dashboard", 200)
    ELSE IF scope.path = PROXY_PATH THEN ProxyHandler(scope)
    ELSE ProxyRoute(Tail(scope.path), env)

\* headers = {k: v for k, v in request.headers.items()
\*            if k.lower() not in ("host", "content-length")}
RequestHeaders(hs) == {h \in hs : Lower(h) \notin {"host", "content-length"}}

NoRequest ==
    [method |-> None, url |-> <<>>, headers |-> {}, content |-> NoBody]

\* _client.request(method=request.method, url=upstream_url, headers=headers,
\*                 content=body)
UpstreamRequest(method, url, hs, body) ==
    [method |-> method, url |-> url, headers |-> RequestHeaders(hs),
     content |-> body]

\* request targets as the server hands them over: scope["path"] and the
\* query string beside it
Targets ==
    { <<"/">>, <<"/", "a">>, <<"/", "a", "/", "b">>,
      HTTP \o <<"h", "/", "a">>, HTTPS \o <<"h", "/", "a">>,
      <<"/", "/", "h", "/", "a">>,
      <<"/">> \o HTTP \o <<"h", "/", "a">>,
      <<"/">> \o HTTPS \o <<"h", "/", "a">>,
      <<"/", "h", "t", "t", "p", ":", "/", "a">>,
      DASHBOARD_PATH, EVENTS_PATH, DASHBOARD_PATH \o <<"x">>,
      <<"/", "a", "/">> \o WEAVERUN, PROXY_PATH }

Queries == { <<>>, <<"q">> }

HeaderSets ==
    { {"host", "content-length", "authorization"},
      {"Host", "Content-Length", "Content-Type", "Authorization"} }

Bases ==
    { Unset, EnvStr(<<>>), EnvStr(HTTP \o <<"o">>),
      EnvStr(HTTP \o <<"o", "/", "/">>) }

Envs == [original : Bases, fallback : Bases \ {EnvStr(HTTP \o <<"o">>)}]

\* arguments of a direct call of resolve_upstream
RelPaths ==
    { <<>>, <<"a">>, <<"a", "/", "b">>, HTTP \o <<"h">>, HTTPS \o <<"h">>,
      <<"h", "t", "t", "p", ":", "/", "a">> }

NoDispatch ==
    [scope |-> [path |-> <<>>, proxy_url |-> NoProxyUrl],
     answer |-> NoAnswer, request |-> NoRequest, resolved |-> <<>>]

DrawnDispatch ==
    /\ arg \in [path : Targets, query : Queries, method : {"GET", "POST"},
                headers : HeaderSets, body : {BodyPlain, BodyBad},
                env : Envs, rel : RelPaths]
    /\ ret = NoDispatch
    /\ fpc = {}

\* the request enters ProxyApp
EnterProxyApp ==
    /\ "app" \notin fpc
    /\ ret' = [ret EXCEPT !.scope = ProxyAppCall(arg.path)]
    /\ fpc' = fpc \cup {"app"}
    /\ UNCHANGED <<arg, storeVars, subVars, sinkVars, proxyVars>>

\* the inner application routes the scope to a handler
RouteRequest ==
    /\ "app" \in fpc
    /\ "route" \notin fpc
    /\ ret' = [ret EXCEPT !.answer = Dispatch(arg.method, ret.scope, arg.env)]
    /\ fpc' = fpc \cup {"route"}
    /\ UNCHANGED <<arg, storeVars, subVars, sinkVars, proxyVars>>

\* _do_proxy issues the upstream request of a non-streaming call
SendUpstream ==
    /\ "route" \in fpc
    /\ "send" \notin fpc
    /\ ret.answer.kind = "forward"
    /\ ret' = [ret EXCEPT !.request =
                  UpstreamRequest(arg.method, ret.answer.url, arg.headers,
                                  arg.body)]
    /\ fpc' = fpc \cup {"send"}
    /\ UNCHANGED <<arg, storeVars, subVars, sinkVars, proxyVars>>

\* resolve_upstream called directly
CallResolveUpstream ==
    /\ "resolve" \notin fpc
    /\ ret' = [ret EXCEPT !.resolved = ResolveUpstream(arg.rel, arg.env)]
    /\ fpc' = fpc \cup {"resolve"}
    /\ UNCHANGED <<arg, storeVars, subVars, sinkVars, proxyVars>>

(***************************************************************************)
(* Trace Extractor: trace_context.py                                       *)
(***************************************************************************)
Rep(c, n) == [i \in 1 .. n |-> c]

HexDigits ==
    {"0", "1", "2", "3", "4", "5", "6", "7", "8", "9",
     "a", "b", "c", "d", "e", "f"}

\* str.lower() on the characters of the model
LowerChar(c) ==
    CASE c = "A" -> "a"
      [] c = "B" -> "b"
      [] c = "G" -> "g"
      [] OTHER -> c

LowerStr(str) == [i \in 1 .. Len(str) |-> LowerChar(str[i])]

\* str.strip()
RECURSIVE LStrip(_)
LStrip(str) ==
    IF str # <<>> /\ Head(str) = " " THEN LStrip(Tail(str)) ELSE str

RECURSIVE RStripSpace(_)
RStripSpace(str) ==
    IF str # <<>> /\ str[Len(str)] = " "
    THEN RStripSpace(SubSeq(str, 1, Len(str) - 1))
    ELSE str

Strip(str) == RStripSpace(LStrip(str))

\* value[:n]
Prefix(str, n) == SubSeq(str, 1, IF Len(str) < n THEN Len(str) ELSE n)

\* W3C_TRACEPARENT_REGEX.match(str):
\* ^([0-9a-f]{2})-([0-9a-f]{32})-([0-9a-f]{16})-([0-9a-f]{2})$
W3cMatch(str) ==
    /\ Len(str) = 55
    /\ \A i \in 1 .. 55 :
           IF i \in {3, 36, 53} THEN str[i] = "-" ELSE str[i] \in HexDigits

NoIds == [trace_id |-> <<>>, parent_span_id |-> <<>>]

\* _parse_w3c_traceparent(value); None is the empty string of the model
ParseW3cTraceparent(value) ==
    IF value = <<>> THEN NoIds
    ELSE LET v == LowerStr(Strip(value))
         IN  IF W3cMatch(v)
             THEN [trace_id |-> SubSeq(v, 4, 35),
                   parent_span_id |-> SubSeq(v, 37, 52)]
             ELSE NoIds

\* h = {k.lower(): v for k, v in headers.items()}; h.get(name), the headers
\* a sequence of <<name, value>> pairs, a missing header the empty string
RECURSIVE HeaderGet(_, _)
HeaderGet(headers, name) ==
    IF headers = <<>> THEN <<>>
    ELSE LET last == headers[Len(headers)]
         IN  IF Lower(last[1]) = name THEN last[2]
             ELSE HeaderGet(SubSeq(headers, 1, Len(headers) - 1), name)

\* the first non-empty value among the named headers, cut to n characters
RECURSIVE FirstHeader(_, _, _)
FirstHeader(headers, names, n) ==
    IF names = <<>> THEN <<>>
    ELSE IF HeaderGet(headers, Head(names)) # <<>>
         THEN Prefix(HeaderGet(headers, Head(names)), n)
    ELSE FirstHeader(headers, Tail(names), n)

TraceHeaders == <<"x-trace-id", "x-request-id", "x-correlation-id",
                  "x-b3-traceid">>
ParentHeaders == <<"x-parent-id", "x-b3-parentspanid", "x-parent-span-id">>

ExtractFromHeadersBodyFirst(headers, span) ==
    [trace_id |-> <<>>, span_id |-> span,
     parent_span_id |-> FirstHeader(headers, ParentHeaders, 16)]
\* _extract_from_headers(headers), span the freshly generated span id
ExtractFromHeaders(headers, span) ==
    LET w3c == ParseW3cTraceparent(HeaderGet(headers, "traceparent"))
        trace_id == IF w3c.trace_id # <<>> THEN w3c.trace_id
                    ELSE FirstHeader(headers, TraceHeaders, 32)
        parent == IF w3c.parent_span_id # <<>> THEN w3c.parent_span_id
                  ELSE FirstHeader(headers, ParentHeaders, 16)
    IN  [trace_id |-> trace_id, span_id |-> span, parent_span_id |-> parent]

\* a or b
Or(a, b) == IF a # <<>> THEN a ELSE b

NoMeta ==
    [isdict |-> TRUE, trace_id |-> <<>>, traceId |-> <<>>,
     parent_id |-> <<>>, parentId |-> <<>>, span_id |-> <<>>]

\* a request body: None, a list, or a dict with the keys the extractor reads
\* (a missing key is the empty string)
EmptyDict ==
    [kind |-> "dict", empty |-> TRUE, metadata |-> NoMeta,
     run_id |-> <<>>, runId |-> <<>>, session_id |-> <<>>,
     sessionId |-> <<>>, conversation_id |-> <<>>, conversationId |-> <<>>,
     thread_id |-> <<>>, threadId |-> <<>>]
SomeDict == [EmptyDict EXCEPT !.empty = FALSE]
NoneBody == [EmptyDict EXCEPT !.kind = "none"]
ListBody == [EmptyDict EXCEPT !.kind = "list", !.empty = FALSE]

\* _extract_from_body(body); a result without trace_id stands for None
ExtractFromBody(body) ==
    IF body.kind # "dict" THEN NoIds
    ELSE LET m == body.metadata
             meta == IF m.isdict THEN Or(m.trace_id, m.traceId) ELSE <<>>
             parent == IF m.isdict
                       THEN Or(m.parent_id, Or(m.parentId, m.span_id))
                       ELSE <<>>
             run == Prefix(Or(body.run_id, body.runId), 32)
             session ==
                 Prefix(Or(body.session_id, Or(body.sessionId,
                        Or(body.conversation_id, Or(body.conversationId,
                        Or(body.thread_id, body.threadId))))), 32)
             trace_id == Or(meta, Or(run, session))
         IN  IF trace_id # <<>>
             THEN [trace_id |-> trace_id, parent_span_id |-> parent]
             ELSE NoIds

\* `if body:` : None, [] and {} are false
BodyTruthy(body) == body.kind # "none" /\ ~body.empty

\* extract_trace_context(headers, body); span and fresh are the values
\* uuid4() yields for the span id and for a generated trace id
ExtractTraceContext(headers, body, span, fresh) ==
    LET ctx == ExtractFromHeaders(headers, span)
        body_ctx == ExtractFromBody(body)
        fromBody == ctx.trace_id = <<>> /\ BodyTruthy(body)
                        /\ body_ctx.trace_id # <<>>
        ctx2 == IF fromBody
                THEN [ctx EXCEPT !.trace_id = body_ctx.trace_id,
                                 !.parent_span_id =
                                     Or(ctx.parent_span_id,
                                        body_ctx.parent_span_id)]
                ELSE ctx
    IN  IF ctx2.trace_id = <<>> THEN [ctx2 EXCEPT !.trace_id = fresh]
        ELSE ctx2

\* uuid4().hex[:32] and uuid4().hex[:16]
Fresh32 == {Rep("e", 32), Rep("f", 32)}
Fresh16 == {Rep("c", 16), Rep("d", 16)}

TpValid ==
    <<"0", "0", "-">> \o Rep("a", 32) \o <<"-">> \o Rep("b", 16)
        \o <<"-", "0", "1">>
TpUpper ==
    <<"0", "0", "-">> \o Rep("A", 32) \o <<"-">> \o Rep("B", 16)
        \o <<"-", "0", "1">>
TpPadded == <<" ">> \o TpValid \o <<" ">>
TpShort ==
    <<"0", "0", "-">> \o Rep("a", 31) \o <<"-">> \o Rep("b", 16)
        \o <<"-", "0", "1">>
TpNotHex ==
    <<"0", "0", "-">> \o Rep("G", 32) \o <<"-">> \o Rep("b", 16)
        \o <<"-", "0", "1">>

HeaderDicts ==
    { <<>>,
      << <<"authorization", <<"k">> >> >>,
      << <<"traceparent", TpValid>> >>,
      << <<"Traceparent", TpUpper>> >>,
      << <<"traceparent", TpPadded>>, <<"x-trace-id", <<"t">> >> >>,
      << <<"traceparent", TpShort>>, <<"X-Request-Id", Rep("r", 40)>> >>,
      << <<"traceparent", <<>> >>, <<"x-correlation-id", <<"c">> >> >>,
      << <<"traceparent", TpNotHex>>, <<"x-b3-traceid", Rep("3", 33)>> >>,
      << <<"traceparent", TpValid>>, <<"x-parent-id", <<"p">> >> >>,
      << <<"x-trace-id", <<>> >>, <<"x-request-id", <<"r">> >> >>,
      << <<"x-request-id", <<"r">> >>, <<"X-Trace-Id", Rep("t", 32)>> >>,
      << <<"x-b3-traceid", Rep("3", 40)>>,
         <<"x-b3-parentspanid", Rep("4", 20)>> >>,
      << <<"x-parent-span-id", <<"p">> >> >> }

TraceBodies ==
    { NoneBody, ListBody, EmptyDict, SomeDict,
      [SomeDict EXCEPT !.metadata.trace_id = <<"m">>,
                       !.metadata.parent_id = <<"q">>, !.run_id = <<"r">>],
      [SomeDict EXCEPT !.metadata.traceId = Rep("m", 40),
                       !.metadata.span_id = <<"q">>],
      [SomeDict EXCEPT !.metadata.span_id = <<"q">>],
      [SomeDict EXCEPT !.metadata.isdict = FALSE,
                       !.conversation_id = <<"v">>],
      [SomeDict EXCEPT !.run_id = Rep("r", 40), !.session_id = <<"s">>],
      [SomeDict EXCEPT !.runId = <<"r">>],
      [SomeDict EXCEPT !.sessionId = <<"s">>, !.threadId = <<"h">>],
      [SomeDict EXCEPT !.threadId = Rep("h", 33)] }

NoContext == [trace_id |-> <<>>, span_id |-> <<>>, parent_span_id |-> <<>>]

DrawnTrace ==
    /\ arg \in [headers : HeaderDicts, body : TraceBodies]
    /\ ret = [ctx |-> NoContext, from_headers |-> NoContext]
    /\ fpc = {}

\* extract_trace_context(headers, body)
CallExtractTraceContext ==
    /\ "extract" \notin fpc
    /\ \E span \in Fresh16, fresh \in Fresh32 :
           ret' = [ret EXCEPT !.ctx =
                      ExtractTraceContext(arg.headers, arg.body, span, fresh)]
    /\ fpc' = fpc \cup {"extract"}
    /\ UNCHANGED <<arg, storeVars, subVars, sinkVars, proxyVars>>

\* _extract_from_headers(headers)
CallExtractFromHeaders ==
    /\ "headers" \notin fpc
    /\ \E span \in Fresh16 :
           ret' = [ret EXCEPT !.from_headers =
                      ExtractFromHeaders(arg.headers, span)]
    /\ fpc' = fpc \cup {"headers"}
    /\ UNCHANGED <<arg, storeVars, subVars, sinkVars, proxyVars>>

(***************************************************************************)
(* Configuration loading: config.py                                        *)
(***************************************************************************)
\* BUILTIN_PROVIDERS: three of the sixteen, in their order, each with one
\* shortened path pattern and host pattern
BUILTIN_PROVIDERS ==
    << [name |-> "openai", path_patterns |-> <<Lit(<<"/", "c">>)>>,
        host_patterns |-> <<Lit(<<"o">>)>>, is_regex |-> TRUE],
       [name |-> "anthropic", path_patterns |-> <<Lit(<<"/", "m">>)>>,
        host_patterns |-> <<Lit(<<"n">>)>>, is_regex |-> TRUE],
       [name |-> "ollama", path_patterns |-> <<Lit(<<"/", "c">>)>>,
        host_patterns |-> <<Lit(<<"l">>)>>, is_regex |-> TRUE] >>

\* entries of the config file's `providers` list; an entry without a name
\* has name None
ProviderEntries ==
    { [isdict |-> TRUE, name |-> "mine", path_patterns |-> <<Lit(<<"/", "c">>)>>,
       host_patterns |-> <<>>, is_regex |-> TRUE],
      [isdict |-> TRUE, name |-> "openai", path_patterns |-> <<Lit(<<"/", "x">>)>>,
       host_patterns |-> <<>>, is_regex |-> TRUE],
      [isdict |-> TRUE, name |-> None, path_patterns |-> <<Lit(<<"/", "m">>)>>,
       host_patterns |-> <<Lit(<<"n">>)>>, is_regex |-> FALSE],
      [isdict |-> TRUE, name |-> "empty", path_patterns |-> <<>>,
       host_patterns |-> <<>>, is_regex |-> TRUE],
      [isdict |-> FALSE, name |-> None, path_patterns |-> <<>>,
       host_patterns |-> <<>>, is_regex |-> TRUE] }

\* _parse_custom_providers(config_data)
RECURSIVE ParseCustomProviders(_)
ParseCustomProviders(entries) ==
    IF entries = <<>> THEN <<>>
    ELSE LET p == Head(entries)
             rest == ParseCustomProviders(Tail(entries))
         IN  IF p.isdict /\ p.path_patterns # <<>>
             THEN << [name |-> IF p.name = None THEN "custom" ELSE p.name,
                      path_patterns |-> p.path_patterns,
                      host_patterns |-> p.host_patterns,
                      is_regex |-> p.is_regex] >> \o rest
             ELSE rest

\* [p for p in providers if p.name not in disabled]
RECURSIVE NotDisabled(_, _)
NotDisabled(providers, disabled) ==
    IF providers = <<>> THEN <<>>
    ELSE IF Head(providers).name \in disabled
         THEN NotDisabled(Tail(providers), disabled)
    ELSE <<Head(providers)>> \o NotDisabled(Tail(providers), disabled)

\* load_config(): file the config file found (present or not) and its data,
\* env_debug whether WEAVERUN_DEBUG is one of "1", "true", "yes"
LoadConfig(file, env_debug) ==
    IF file.present
    THEN LET providers == ParseCustomProviders(file.providers)
                              \o BUILTIN_PROVIDERS
         IN  [providers |-> IF file.disable_providers # {}
                            THEN NotDisabled(providers, file.disable_providers)
                            ELSE providers,
              capture_all_requests |-> file.capture_all_requests,
              debug |-> file.debug \/ env_debug]
    ELSE [providers |-> BUILTIN_PROVIDERS, capture_all_requests |-> FALSE,
          debug |-> env_debug]

EntryLists ==
    {<<>>} \cup {<<e>> : e \in ProviderEntries}
           \cup {<<e, f>> : e, f \in ProviderEntries}

ConfigFiles ==
    [present : BOOLEAN, providers : EntryLists,
     disable_providers : SUBSET {"openai", "ollama", "mine"},
     capture_all_requests : {FALSE}, debug : BOOLEAN]

NoConfig == [providers |-> <<>>, capture_all_requests |-> FALSE,
             debug |-> FALSE]

DrawnConfig ==
    /\ arg \in [file : ConfigFiles, env_debug : BOOLEAN,
                path : {<<"/", "c">>, <<"/", "m">>}, host : {<<"n">>}]
    /\ ret = [config |-> NoConfig, result |-> <<FALSE, None>>]
    /\ fpc = {}

\* load_config()
CallLoadConfig ==
    /\ "load" \notin fpc
    /\ ret' = [ret EXCEPT !.config = LoadConfig(arg.file, arg.env_debug)]
    /\ fpc' = fpc \cup {"load"}
    /\ UNCHANGED <<arg, storeVars, subVars, sinkVars, proxyVars>>

\* the loaded config asked about a request
CallLoadedIsCapturable ==
    /\ "load" \in fpc
    /\ "classify" \notin fpc
    /\ ret' = [ret EXCEPT !.result =
                  IsCapturable(ret.config, arg.path, arg.host)]
    /\ fpc' = fpc \cup {"classify"}
    /\ UNCHANGED <<arg, storeVars, subVars, sinkVars, proxyVars>>

(***************************************************************************)
(* The end-of-stream update on the Log Store: proxy.py, dashboard.py       *)
(***************************************************************************)
\* the keyword arguments of the pre-log add_log that dashboard.add_log takes
PreLogArgs ==
    [path |-> "/v1/chat/completions", status_code |-> 200, latency_ms |-> 0,
     trace_pending |-> TRUE, request_body |-> JsonBody("req"),
     response_body |-> InProgress]

\* state["chunks"] at the end of a stream: nothing, chunks of upstream, and
\* an error frame never (it is yielded, not accumulated)
StreamChunkLists ==
    {<<>>} \cup {<<c>> : c \in Chunks \cup {<<LnDone, LnBlank>>}}
           \cup {<<c, d>> : c \in Chunks, d \in Chunks \cup {<<LnDone, LnBlank>>}}

\* add_log(..., status_code=200, latency_ms=0, response_body={"_streaming":
\* True, "_status": "in_progress"}) on the Log Store
PreLog ==
    /\ AddLog(PreLogArgs)
    /\ calls' = calls + 1
    /\ UNCHANGED <<subscribers, subPc, subIter, subSnap, delivered, sinkVars,
                   proxyVars, fnVars>>

\* the finally block of stream_generator on the Log Store:
\* update_log_entry(entry_id, response_body=_parse_sse_chunks(chunks),
\*                  latency_ms=ttfb, status_code=state["status_code"]);
\* arg keeps the chunks each record was finalized with
EndOfStreamUpdate(eid, chunks) ==
    /\ eid \notin fpc
    /\ UpdateLogEntry(eid, [response_body |-> ParseSseChunks(chunks),
                            latency_ms |-> 456, status_code |-> 200])
    /\ arg' = (eid :> chunks) @@ arg
    /\ fpc' = fpc \cup {eid}
    /\ calls' = calls + 1
    /\ UNCHANGED <<logs, logsById, nextId, dequeState, ret>>
    /\ UNCHANGED <<subscribers, subPc, subIter, subSnap, delivered, sinkVars,
                   proxyVars>>

NoFinals ==
    /\ arg = <<>>
    /\ ret = NoRet
    /\ fpc = {}

(***************************************************************************)
(* _parse_sse_chunks on bytes: proxy.py                                    *)
(***************************************************************************)
\* a byte text is a sequence of atoms: "data: ", the opening of a JSON
\* event up to the start of its content string, with id x ("{x:") or
\* without id ("{:"), content characters, the closing of the event ("}"),
\* "[DONE]", a JSON number ("5"), "\n" and " "
ContentChars == {"H", "i", "!"}

\* text.split("\n")
RECURSIVE SplitLines(_)
SplitLines(text) ==
    IF \A i \in 1 .. Len(text) : text[i] # "\n" THEN <<text>>
    ELSE LET k == CHOOSE i \in 1 .. Len(text) :
                      text[i] = "\n" /\ \A j \in 1 .. (i - 1) : text[j] # "\n"
         IN  <<SubSeq(text, 1, k - 1)>>
                 \o SplitLines(SubSeq(text, k + 1, Len(text)))

\* json.loads(data_str) succeeds and gives an event
IsJsonEvent(d) ==
    /\ Len(d) >= 2
    /\ d[1] \in {"{x:", "{:"}
    /\ d[Len(d)] = "}"
    /\ \A i \in 2 .. (Len(d) - 1) : d[i] \in ContentChars

\* one line of a chunk: line.strip(), startswith("data: "), "[DONE]",
\* json.loads; a line that is not a complete event is passed over
ParseLine(line) ==
    LET l == Strip(line)
    IN  IF ~StartsWith(l, <<"data: ">>) THEN LnBlank
        ELSE IF Tail(l) = <<"[DONE]">> THEN LnDone
        ELSE IF Tail(l) = <<"5">> THEN LnMalformed
        ELSE IF IsJsonEvent(Tail(l))
             THEN [kind |-> "event",
                   id |-> IF l[2] = "{x:" THEN "x" ELSE None,
                   model |-> None, content |-> SubSeq(l, 3, Len(l) - 1),
                   finish |-> None, usage |-> None, error |-> None]
        ELSE LnBlank

\* for line in text.split("\n"): the lines of one chunk
DecodeLines(chunk) ==
    LET lines == SplitLines(chunk)
    IN  [i \in 1 .. Len(lines) |-> ParseLine(lines[i])]

\* _parse_sse_chunks(chunks), the chunks given as bytes
ParseSseBytes(chunks) ==
    ParseSseChunks([i \in 1 .. Len(chunks) |-> DecodeLines(chunks[i])])

\* the bytes of two upstream streams
SseTexts ==
    { <<"data: ", "{x:", "H", "i", "}", "\n", "\n",
        "data: ", "{:", "!", "}", "\n", "\n",
        "data: ", "[DONE]", "\n", "\n">>,
      <<" ", "data: ", "{:", "H", "}", " ", "\n",
        "data: ", "{:", "i", "}", "\n">>,
      <<"data: ", "5", "\n", "data: ", "{:", "H", "}", "\n">> }

\* the text cut into three chunks after its first c1 and c2 atoms
ChunksOf(text, c1, c2) ==
    <<SubSeq(text, 1, c1), SubSeq(text, c1 + 1, c2),
      SubSeq(text, c2 + 1, Len(text))>>

DrawnSse ==
    /\ arg \in {[text |-> t, c1 |-> a, c2 |-> b] :
                   t \in SseTexts, a \in 0 .. 17, b \in 0 .. 17}
    /\ arg.c1 <= arg.c2 /\ arg.c2 <= Len(arg.text)
    /\ ret = [chunked |-> NoBody, whole |-> NoBody]
    /\ fpc = {}

\* _parse_sse_chunks on the chunks as they arrived
CallParseChunked ==
    /\ "chunked" \notin fpc
    /\ ret' = [ret EXCEPT !.chunked =
                  ParseSseBytes(ChunksOf(arg.text, arg.c1, arg.c2))]
    /\ fpc' = fpc \cup {"chunked"}
    /\ UNCHANGED <<arg, storeVars, subVars, sinkVars, proxyVars>>

\* _parse_sse_chunks on the same bytes arriving as one chunk
CallParseWhole ==
    /\ "whole" \notin fpc
    /\ ret' = [ret EXCEPT !.whole = ParseSseBytes(<<arg.text>>)]
    /\ fpc' = fpc \cup {"whole"}
    /\ UNCHANGED <<arg, storeVars, subVars, sinkVars, proxyVars>>

(***************************************************************************)
(* _parse_sse_chunks on chunks of whole lines                              *)
(***************************************************************************)
EvHel == [kind |-> "event", id |-> "x", model |-> None,
          content |-> <<"H", "e", "l">>, finish |-> None, usage |-> None,
          error |-> None]
EvLo == [kind |-> "event", id |-> "y", model |-> "m",
         content |-> <<"l", "o">>, finish |-> "stop", usage |-> "u",
         error |-> None]
EvEnd == [kind |-> "event", id |-> None, model |-> "n", content |-> <<>>,
          finish |-> "length", usage |-> "v", error |-> None]

SseLines == {EvHel, EvLo, EvEnd, LnDone, LnBlank, LnMalformed}

LineChunks ==
    {<<>>} \cup {<<l>> : l \in SseLines} \cup {<<l, m>> : l, m \in SseLines}

DrawnLines ==
    /\ arg \in {<<c>> : c \in LineChunks} \cup {<<c, d>> : c, d \in LineChunks}
    /\ ret = [parsed |-> NoBody]
    /\ fpc = {}

\* _parse_sse_chunks(chunks)
CallParseSseChunks ==
    /\ "parse" \notin fpc
    /\ ret' = [ret EXCEPT !.parsed = ParseSseChunks(arg)]
    /\ fpc' = fpc \cup {"parse"}
    /\ UNCHANGED <<arg, storeVars, subVars, sinkVars, proxyVars>>

(***************************************************************************)
(* Shutdown of the sink: WeaveLogger.stop                                  *)
(***************************************************************************)
\* a plausible slip: `await self._queue.join()` without a timeout
JoinEndsNoTimeout(pending, expired) == pending = 0

\* asyncio.wait_for(self._queue.join(), timeout=5.0) returns or raises
\* TimeoutError (which stop() passes over): every task is done, or the
\* window has expired
JoinEnds(pending, expired) == pending = 0 \/ expired

\* stop() is called with the worker running and waits for the queue; fpc
\* keeps the steps stop() has made
StopCall ==
    /\ fpc = {}
    /\ workerPc \in {"get", "executor"}
    /\ fpc' = {"join"}
    /\ UNCHANGED <<arg, ret, storeVars, subVars, sinkVars, proxyVars>>

\* the wait ends and stop() calls self._worker_task.cancel(): the worker
\* will be resumed with CancelledError at the await it is suspended in
StopCancel ==
    /\ fpc = {"join"}
    /\ \E expired \in BOOLEAN : JoinEnds(unfinished, expired)
    /\ fpc' = {"join", "cancel"}
    /\ workerPc' = "cancelling"
    /\ UNCHANGED <<sinkQueue, unfinished, sinkInit, warned, workerCur, sinkCalls,
                   putLog, taken, cbCalls>>
    /\ UNCHANGED <<arg, ret, storeVars, subVars, proxyVars>>

\* the worker: except asyncio.CancelledError: break
WorkerCancelled ==
    /\ workerPc = "cancelling"
    /\ workerPc' = "ended"
    /\ UNCHANGED <<sinkQueue, unfinished, sinkInit, warned, workerCur, sinkCalls,
                   putLog, taken, cbCalls>>
    /\ UNCHANGED <<storeVars, subVars, proxyVars, fnVars>>

\* `await self._worker_task` ends, self._executor.shutdown(wait=False), and
\* stop() returns
StopReturn ==
    /\ fpc = {"join", "cancel"}
    /\ workerPc = "ended"
    /\ fpc' = {"join", "cancel", "returned"}
    /\ UNCHANGED <<arg, ret, storeVars, subVars, sinkVars, proxyVars>>

(***************************************************************************)
(* A captured call on the Log Store and the sink: proxy.py                 *)
(***************************************************************************)
\* the capture block of _do_proxy on the Log Store and the logger, outside
\* debug mode: entry_id = add_log(..., trace_pending=True, ...), then
\* _logger.log_async(..., trace_callback=lambda url, eid=entry_id:
\* update_trace_url(eid, url)), with no await in between
Capture(a) ==
    /\ AddLog([a EXCEPT !.trace_pending = TRUE])
    /\ LogAsync(nextId)
    /\ calls' = calls + 1
    /\ UNCHANGED <<subscribers, subPc, subIter, subSnap, delivered, proxyVars,
                   fnVars>>

(***************************************************************************)
(* Updates by holders of an entry id: proxy.py                             *)
(***************************************************************************)
\* what a holder's call looked up: entry = _logs_by_id.get(entry_id)
HeldCall(op, eid) == [op |-> op, id |-> eid, found |-> eid \in Range(logsById)]

\* the sink task's trace_callback, run when the task completes:
\* lambda url, eid=entry_id: update_trace_url(eid, url)
LateTraceCallback(eid, url) ==
    /\ UpdateTraceUrl(eid, url)
    /\ arg' = Append(arg, HeldCall("update_trace_url", eid))
    /\ calls' = calls + 1
    /\ UNCHANGED <<logs, logsById, nextId, dequeState, ret, fpc>>
    /\ UNCHANGED <<subscribers, subPc, subIter, subSnap, delivered, sinkVars, proxyVars>>

\* the stream generator's finally block, run when the stream ends:
\* update_log_entry(entry_id, response_body=, latency_ms=, status_code=)
LateStreamUpdate(eid, u) ==
    /\ UpdateLogEntry(eid, u)
    /\ arg' = Append(arg, HeldCall("update_log_entry", eid))
    /\ calls' = calls + 1
    /\ UNCHANGED <<logs, logsById, nextId, dequeState, ret, fpc>>
    /\ UNCHANGED <<subscribers, subPc, subIter, subSnap, delivered, sinkVars, proxyVars>>

NoHeldCalls ==
    /\ arg = <<>>
    /\ ret = NoRet
    /\ fpc = {}

InitStore ==
    /\ logs = <<>>
    /\ logsById = <<>>
    /\ ent = <<>>
    /\ nextId = 1
    /\ dequeState = 0
    /\ emitted = <<>>
    /\ calls = 0

InitSubs ==
    /\ subscribers = {}
    /\ subPc = [s \in Subscribers |-> "idle"]
    /\ subQueue = [s \in Subscribers |-> <<>>]
    /\ subIter = [s \in Subscribers |-> [pos |-> 0, state |-> 0]]
    /\ subSnap = [s \in Subscribers |-> <<>>]
    /\ delivered = [s \in Subscribers |-> <<>>]

Init == InitStore /\ InitSubs /\ InitSink /\ InitProxy /\ InitFn

\* ids a caller may hold: every id add_log has returned
IssuedIds == 1 .. (nextId - 1)

Next ==
    \/ \E a \in AddArgs : calls < MaxCalls /\ CallAddLog(a)
    \/ \E eid \in IssuedIds, url \in TraceUrls :
           calls < MaxCalls /\ CallUpdateTraceUrl(eid, url)
    \/ \E eid \in IssuedIds, u \in UpdateArgs :
           calls < MaxCalls /\ CallUpdateLogEntry(eid, u)
    \/ \E s \in Watchers : Subscribe(s)
    \/ \E s \in Subscribers : ReplayNext(s)
    \/ \E s \in Subscribers : Deliver(s)
    \/ \E s \in Subscribers : Unsubscribe(s)

Spec == Init /\ [][Next]_vars

(***************************************************************************)
(* SpecRing: the API driven past the capacity of the ring. The ring is     *)
(* filled by plain add_log calls; from one record short of full on, every  *)
(* call is drawn freely.                                                   *)
(***************************************************************************)
NearFull == Len(logs) >= LogCap - 1

\* ids worth addressing in a full ring: the oldest kept, the newest, the one
\* evicted last, and one never issued
RingTargets ==
    {i \in {Head(logs), nextId - 1, Head(logs) - 1, 0} : i >= 0}

NextRing ==
    \/ calls < MaxRingCalls /\ ~NearFull /\ CallAddLog(DefaultArgs)
    \/ calls < MaxRingCalls /\ NearFull /\ \E a \in AddArgs : CallAddLog(a)
    \/ calls < MaxRingCalls /\ NearFull
           /\ \E eid \in RingTargets, url \in TraceUrls : CallUpdateTraceUrl(eid, url)
    \/ calls < MaxRingCalls /\ NearFull
           /\ \E eid \in RingTargets, u \in UpdateArgs : CallUpdateLogEntry(eid, u)

SpecRing == Init /\ [][NextRing]_vars

(***************************************************************************)
(* SpecSink: log_async called directly, the worker running beside it.      *)
(***************************************************************************)
NextSink ==
    \/ WorkerStart
    \/ sinkCalls < MaxSinkCalls /\ \E eid \in {0} \cup IssuedIds : CallLogAsync(eid)
    \/ Len(taken) < MaxTaken /\ WorkerTake
    \/ \E io \in InitOutcomes, lo \in LogOutcomes : WorkerFinish(io, lo)

SpecSink == Init /\ [][NextSink]_vars

(***************************************************************************)
(* SpecFlood: subscribers connected before any traffic, one of them slow.  *)
(* The channels are filled by plain add_log calls; from one event short of *)
(* a full channel on, every call is drawn freely, on the newest record.    *)
(***************************************************************************)
FloodNear == \E s \in subscribers : Len(subQueue[s]) >= SubQueueCap - 1

NextFlood ==
    \/ \E s \in Subscribers : logs = <<>> /\ Subscribe(s)
    \/ calls < MaxFloodCalls /\ subscribers = Subscribers /\ ~FloodNear /\ CallAddLog(DefaultArgs)
    \/ calls < MaxFloodCalls /\ FloodNear /\ \E a \in AddArgs : CallAddLog(a)
    \/ calls < MaxFloodCalls /\ FloodNear
           /\ \E url \in TraceUrls : CallUpdateTraceUrl(nextId - 1, url)
    \/ calls < MaxFloodCalls /\ FloodNear
           /\ \E u \in UpdateArgs : CallUpdateLogEntry(nextId - 1, u)
    \/ Len(delivered["s2"]) < MaxFloodReads /\ Deliver("s2")
    \/ Len(delivered["s1"]) < MaxFloodReads /\ FloodNear /\ Deliver("s1")

SpecFlood == Init /\ [][NextFlood]_vars

(***************************************************************************)
(* SpecTrace: records added and sink tasks queued for them by direct calls, *)
(* the worker running: the callbacks of the tasks meet the Log Store.      *)
(***************************************************************************)
NextTrace ==
    \/ WorkerStart
    \/ \E a \in AddArgs : calls < MaxTraceAdds /\ CallAddLog(a)
    \/ \E eid \in IssuedIds : sinkCalls < MaxTraceTasks /\ CallLogAsync(eid)
    \/ WorkerTake
    \/ \E io \in InitOutcomes, lo \in LogOutcomes : WorkerFinish(io, lo)

SpecTrace == Init /\ [][NextTrace]_vars

(***************************************************************************)
(* SpecMatch: the matcher applied to a drawn config, path and host.        *)
(***************************************************************************)
NextMatch == CallIsCapturable \/ CallMatches

InitMatch == InitStore /\ InitSubs /\ InitSink /\ InitProxy /\ DrawnMatch

SpecMatch == InitMatch /\ [][NextMatch]_vars

(***************************************************************************)
(* SpecDispatch: one request target through ProxyApp, the routes and the   *)
(* upstream request of _do_proxy; resolve_upstream on a drawn argument.    *)
(***************************************************************************)
NextDispatch ==
    \/ EnterProxyApp
    \/ RouteRequest
    \/ SendUpstream
    \/ CallResolveUpstream

InitDispatch == InitStore /\ InitSubs /\ InitSink /\ InitProxy /\ DrawnDispatch

SpecDispatch == InitDispatch /\ [][NextDispatch]_vars

(***************************************************************************)
(* SpecTraceCtx: the trace extractor applied to drawn headers and body.    *)
(***************************************************************************)
NextTraceCtx == CallExtractTraceContext \/ CallExtractFromHeaders

InitTraceCtx == InitStore /\ InitSubs /\ InitSink /\ InitProxy /\ DrawnTrace

SpecTraceCtx == InitTraceCtx /\ [][NextTraceCtx]_vars

(***************************************************************************)
(* SpecConfig: load_config on a drawn config file, then a classification.  *)
(***************************************************************************)
NextConfig == CallLoadConfig \/ CallLoadedIsCapturable

InitConfig == InitStore /\ InitSubs /\ InitSink /\ InitProxy /\ DrawnConfig

SpecConfig == InitConfig /\ [][NextConfig]_vars

(***************************************************************************)
(* SpecStreamLog: records added as the streaming pre-log adds them, each   *)
(* finalized once as the end of its stream finalizes it.                   *)
(***************************************************************************)
NextStreamLog ==
    \/ calls < MaxStreamCalls /\ PreLog
    \/ \E eid \in IssuedIds, chunks \in StreamChunkLists :
           calls < MaxStreamCalls /\ EndOfStreamUpdate(eid, chunks)

InitStreamLog == InitStore /\ InitSubs /\ InitSink /\ InitProxy /\ NoFinals

SpecStreamLog == InitStreamLog /\ [][NextStreamLog]_vars

(***************************************************************************)
(* SpecSse: _parse_sse_chunks on a drawn text, as chunks and as a whole.   *)
(***************************************************************************)
NextSse == CallParseChunked \/ CallParseWhole

InitSse == InitStore /\ InitSubs /\ InitSink /\ InitProxy /\ DrawnSse

SpecSse == InitSse /\ [][NextSse]_vars

(***************************************************************************)
(* SpecSseLines: _parse_sse_chunks on drawn chunks of whole lines.         *)
(***************************************************************************)
NextSseLines == CallParseSseChunks

InitSseLines == InitStore /\ InitSubs /\ InitSink /\ InitProxy /\ DrawnLines

SpecSseLines == InitSseLines /\ [][NextSseLines]_vars

(***************************************************************************)
(* SpecStop: the sink with tasks queued by direct calls, and stop() called *)
(* at any moment. The steps of stop() and the cancelled worker are taken   *)
(* eventually; a task handed to the executor need never complete.          *)
(***************************************************************************)
NextStop ==
    \/ WorkerStart
    \/ sinkCalls < MaxStopTasks /\ CallLogAsync(0)
    \/ WorkerTake
    \/ \E io \in InitOutcomes, lo \in LogOutcomes : WorkerFinish(io, lo)
    \/ StopCall
    \/ StopCancel
    \/ WorkerCancelled
    \/ StopReturn

SpecStop ==
    /\ Init
    /\ [][NextStop]_vars
    /\ WF_vars(StopCancel)
    /\ WF_vars(WorkerCancelled)
    /\ WF_vars(StopReturn)

(***************************************************************************)
(* SpecLoad: the sink under load. The worker is started and, while it is   *)
(* kept waiting, direct log_async calls bring the queue to one task short  *)
(* of its capacity; from then on the worker runs freely and fairly, and    *)
(* until it takes its first task further calls and captured calls arrive.  *)
(***************************************************************************)
FillDone == sinkCalls >= SinkQueueCap - 1

LoadFill == ~FillDone /\ workerPc = "get" /\ CallLogAsync(0)

LoadTake == FillDone /\ WorkerTake

LoadFinish == FillDone /\ WorkerFinish("ok", "url")

NextLoad ==
    \/ WorkerStart
    \/ LoadFill
    \/ FillDone /\ taken = <<>> /\ sinkCalls < MaxLoadCalls /\ CallLogAsync(0)
    \/ FillDone /\ taken = <<>> /\ sinkCalls < MaxLoadCalls
           /\ calls < MaxLoadAdds /\ Capture(DefaultArgs)
    \/ LoadTake
    \/ LoadFinish

SpecLoad ==
    /\ Init
    /\ [][NextLoad]_vars
    /\ WF_vars(WorkerStart)
    /\ WF_vars(LoadFill)
    /\ WF_vars(LoadTake)
    /\ WF_vars(LoadFinish)

(***************************************************************************)
(* SpecEvict: updates that arrive late. The ring is filled by plain        *)
(* add_log calls; from one record short of full on, add_log calls evict    *)
(* records while sink callbacks and stream finalizers, which hold the ids  *)
(* of records added earlier, make their updates.                           *)
(***************************************************************************)
NextEvict ==
    \/ calls < MaxRingCalls /\ ~NearFull /\ CallAddLog(DefaultArgs)
    \/ calls < MaxRingCalls /\ NearFull /\ \E a \in AddArgs : CallAddLog(a)
    \/ calls < MaxRingCalls /\ NearFull /\ Len(arg) < MaxHeldCalls
           /\ \E eid \in RingTargets, url \in TraceUrls : LateTraceCallback(eid, url)
    \/ calls < MaxRingCalls /\ NearFull /\ Len(arg) < MaxHeldCalls
           /\ \E eid \in RingTargets, u \in UpdateArgs : LateStreamUpdate(eid, u)

InitEvict == InitStore /\ InitSubs /\ InitSink /\ InitProxy /\ NoHeldCalls

SpecEvict == InitEvict /\ [][NextEvict]_vars

(***************************************************************************)
(* SpecProxy: requests through _do_proxy and _do_streaming_proxy, the      *)
(* application started (the HTTP client and the logger exist).             *)
(***************************************************************************)
Outcomes == {"ok", "timeout", "connect", "other"}

NextProxy ==
    \/ \E r \in Reqs, capture \in BOOLEAN, body \in Bodies, debug \in BOOLEAN :
           Arrive(r, capture, body, debug)
    \/ \E r \in Reqs : DoProxy(r)
    \/ \E r \in Reqs, out \in Outcomes, up \in UpResponses : ForwardReturn(r, out, up)
    \/ \E r \in Reqs, out \in Outcomes, up \in UpResponses : StreamOpen(r, out, up)
    \/ \E r \in Reqs, chunk \in Chunks :
           Len(upSeq[r]) < MaxChunks /\ StreamNext(r, chunk)
    \/ \E r \in Reqs, out \in Outcomes : StreamFail(r, out)
    \/ \E r \in Reqs : StreamEnd(r)
    \/ \E r \in Reqs : StreamErrEnd(r)
    \/ \E r \in Reqs : StreamDisconnect(r)

SpecProxy == Init /\ [][NextProxy]_vars

(***************************************************************************)
(* Events and requests, for the statements below                           *)
(***************************************************************************)
\* the types of the events broadcast for one record id, in order
RECURSIVE TypesFor(_, _)
TypesFor(evs, eid) ==
    IF evs = <<>> THEN <<>>
    ELSE IF Head(evs).id = eid THEN <<Head(evs).type>> \o TypesFor(Tail(evs), eid)
    ELSE TypesFor(Tail(evs), eid)

CountOf(types, t) == Cardinality({i \in 1 .. Len(types) : types[i] = t})

\* the events broadcast for the record of request r (none when it has no record)
ReqTypes(r) == IF reqEntry[r] = 0 THEN <<>> ELSE TypesFor(emitted, reqEntry[r])

Streaming(r) == IsStreamingRequest(rin[r].body)
Handled(r) == rpc[r] \in {"done", "raised", "gone"}

(***************************************************************************)
(* C2: every captured streaming request has exactly one `log` event        *)
(* emitted when it is first observed, exactly one `log_update` for the     *)
(* same record at end-of-stream and at most one `trace_update`.            *)
(***************************************************************************)
C2_StreamingEvents ==
    \A r \in Reqs :
        (rin[r].capture /\ Streaming(r)) =>
            /\ rpc[r] \notin {"new", "body"} => CountOf(ReqTypes(r), "log") = 1
            /\ rpc[r] = "done" => CountOf(ReqTypes(r), "log_update") = 1
            /\ CountOf(ReqTypes(r), "trace_update") <= 1

(***************************************************************************)
(* C3: every captured non-streaming request whose upstream call returned   *)
(* an HTTP response gives the client that response, adds exactly one       *)
(* record (one `log` event) and has at most one `trace_update`.            *)
(***************************************************************************)
C3_ForwardCaptured ==
    \A r \in Reqs :
        (rin[r].capture /\ ~Streaming(r) /\ Handled(r) /\ upOutcome[r] = "ok") =>
            /\ response[r] = ForwardResponse(upResp[r])
            /\ CountOf(ReqTypes(r), "log") = 1
            /\ CountOf(ReqTypes(r), "trace_update") <= 1

(***************************************************************************)
(* C4: the events of one captured request are emitted to the subscriber    *)
(* channels in the order log, then log_update (if any), then trace_update  *)
(* (if any), and a channel hands them on in the order they were enqueued.  *)
(***************************************************************************)
EventOrders ==
    { <<"log">>, <<"log", "log_update">>, <<"log", "trace_update">>,
      <<"log", "log_update", "trace_update">> }

C4_EventOrder ==
    \A r \in Reqs :
        (rin[r].capture /\ Handled(r) /\ (Streaming(r) \/ upOutcome[r] = "ok")) =>
            ReqTypes(r) \in EventOrders

(***************************************************************************)
(* C5: a subscriber that connects receives every record that was in the    *)
(* ring, as `log` events in insertion order, before any later event; the   *)
(* replay is of a consistent snapshot even when add_log runs between two   *)
(* replayed frames.                                                        *)
(***************************************************************************)
C5_ReplaySnapshot ==
    \A s \in Subscribers :
        subPc[s] \in {"live", "crashed"} =>
            /\ Len(delivered[s]) >= Len(subSnap[s])
            /\ \A i \in 1 .. Len(subSnap[s]) :
                   /\ delivered[s][i].type = "log"
                   /\ delivered[s][i].id = subSnap[s][i]

(***************************************************************************)
(* C6: no response returned to the client, by the forward engine or the    *)
(* streaming engine, carries a hop-by-hop header.                          *)
(***************************************************************************)
C6_NoHopByHop ==
    \A r \in Reqs : response[r].headers \cap HopByHop = {}

(***************************************************************************)
(* C8: when the non-streaming upstream call times out the client gets 504, *)
(* on a connection error or any other failure 502; that step adds no       *)
(* record, broadcasts no event and enqueues no sink task, capturable       *)
(* request or not.                                                         *)
(***************************************************************************)
C8_UpstreamFailure ==
    [][\A r \in Reqs :
          (rpc[r] = "upstream" /\ upOutcome'[r] \in {"timeout", "connect", "other"}) =>
              /\ rpc'[r] = "done"
              /\ response'[r].status = (IF upOutcome'[r] = "timeout" THEN 504 ELSE 502)
              /\ attempted'[r] = 0
              /\ UNCHANGED <<logs, logsById, ent, emitted, subQueue, sinkQueue, sinkCalls>>
      ]_vars

\* a capturable request was answered 504 after a timeout, another 502
C8_Witness ==
    \E r, q \in Reqs :
        /\ rin[r].capture /\ rpc[r] = "done" /\ upOutcome[r] = "timeout"
        /\ response[r].status = 504
        /\ rin[q].capture /\ rpc[q] = "done" /\ upOutcome[q] = "connect"
        /\ response[q].status = 502

(***************************************************************************)
(* C9: no request and no dashboard subscription lets an exception reach    *)
(* the server: every request ends in a response of the proxy's handlers.   *)
(***************************************************************************)
C9_NothingRaises ==
    /\ \A r \in Reqs : rpc[r] # "raised"
    /\ \A s \in Subscribers : subPc[s] # "crashed"

(***************************************************************************)
(* C10 as stated: at every point of a streaming response the chunks        *)
(* yielded to the client are a prefix of the chunks received from          *)
(* upstream, and equal to them on a clean end-of-stream.                   *)
(***************************************************************************)
IsPrefix(a, b) == Len(a) <= Len(b) /\ a = SubSeq(b, 1, Len(a))

C10_Original ==
    \A r \in Reqs :
        /\ IsPrefix(client[r], upSeq[r])
        /\ (rpc[r] = "done" /\ sstate[r].error = None) => client[r] = upSeq[r]

(***************************************************************************)
(* C10 amended: at every point of a streaming response the client has been *)
(* yielded exactly the chunks read from upstream so far, unmodified and    *)
(* one by one (each before the next is read), followed, once upstream has  *)
(* failed, by the one SSE error frame.                                     *)
(***************************************************************************)
C10_ChunksForwarded ==
    \A r \in Reqs :
        IF sstate[r].error = None
        THEN client[r] = upSeq[r]
        ELSE client[r] = Append(upSeq[r], ErrFrame(sstate[r].error))

\* one stream has ended cleanly after two chunks, the other failed after one
C10_Witness ==
    \E r, q \in Reqs :
        /\ rpc[r] = "done" /\ sstate[r].error = None /\ Len(client[r]) = 2
        /\ rpc[q] = "done" /\ sstate[q].error # None /\ Len(upSeq[q]) = 1

(***************************************************************************)
(* C7: log_async never blocks the request path: on a queue that already    *)
(* holds 1000 tasks the new task is dropped and the call returns, so the   *)
(* queue never exceeds 1000 tasks. Every call returns having either queued *)
(* or dropped its task, whatever the worker and the sink are doing.        *)
(***************************************************************************)
C7_LogAsyncNeverBlocks ==
    /\ Len(sinkQueue) <= SinkQueueCap
    /\ \A p \in putLog : p.outcome = "dropped" /\ p.qlen = SinkQueueCap
    /\ sinkCalls = Len(sinkQueue) + Len(taken) + Cardinality(putLog)

\* a call found the queue full, dropped its task and returned, the worker being
\* busy in the sink
C7_Witness ==
    /\ Len(sinkQueue) = SinkQueueCap
    /\ putLog # {}
    /\ workerPc = "executor"

(***************************************************************************)
(* C1: after any sequence of add_log, update_log_entry and                 *)
(* update_trace_url calls the ring holds at most 100 records and the id    *)
(* index at most 100 entries.                                              *)
(***************************************************************************)
C1_StoreBounded ==
    /\ Len(logs) <= LogCap
    /\ Len(logsById) <= LogCap

\* the ring is full, records have been evicted and an update has been made
C1_Witness ==
    /\ Len(logs) = LogCap
    /\ Len(logsById) = LogCap
    /\ Head(logs) > 1
    /\ \E i \in 1 .. Len(emitted) : emitted[i].type # "log"

(***************************************************************************)
(* Streaming: failure and cancellation                                     *)
(***************************************************************************)
\* the response body a record holds once update_log_entry was given the
\* response rebuilt from chunks (None leaves the placeholder in place)
RebuiltBody(chunks) ==
    IF ParseSseChunks(chunks) = NoBody THEN InProgress ELSE ParseSseChunks(chunks)

\* the sink tasks waiting for record eid
TasksFor(eid) == {i \in 1 .. Len(sinkQueue) : sinkQueue[i].eid = eid}

(***************************************************************************)
(* C11: when the upstream streaming request times out, fails to connect or *)
(* errors after k chunks were forwarded, the client has received those k   *)
(* chunks, then exactly one error frame and nothing after it, and the      *)
(* request's record is finalized by update_log_entry with the response     *)
(* rebuilt from the k captured chunks.                                     *)
(***************************************************************************)
C11_StreamFailure ==
    \A r \in Reqs :
        (Streaming(r) /\ Handled(r)) =>
            /\ rin[r].capture => reqEntry[r] # 0
            /\ (rpc[r] = "done" /\ sstate[r].error # None) =>
                   /\ client[r] = Append(upSeq[r], ErrFrame(sstate[r].error))
                   /\ sstate[r].chunks = upSeq[r]
                   /\ rin[r].capture =>
                          /\ CountOf(ReqTypes(r), "log_update") = 1
                          /\ ent[reqEntry[r]].response_body = RebuiltBody(upSeq[r])

(***************************************************************************)
(* C12: when the client disconnects mid-stream the finalization block      *)
(* still runs exactly once: update_log_entry is called with the response   *)
(* rebuilt from the chunks captured so far and, outside debug mode,        *)
(* exactly one sink task is enqueued; no further chunk and no error frame  *)
(* is yielded.                                                             *)
(***************************************************************************)
C12_DisconnectFinalizes ==
    \A r \in Reqs :
        (Streaming(r) /\ Handled(r)) =>
            /\ rin[r].capture => reqEntry[r] # 0
            /\ (rpc[r] = "gone" /\ sstate[r].error = None) =>
                   /\ client[r] = upSeq[r]
                   /\ rin[r].capture =>
                          /\ CountOf(ReqTypes(r), "log_update") = 1
                          /\ ent[reqEntry[r]].response_body = RebuiltBody(upSeq[r])
                          /\ Cardinality(TasksFor(reqEntry[r])) =
                                 (IF rin[r].debug THEN 0 ELSE 1)

(***************************************************************************)
(* C13: the status code and the headers of a streaming response returned   *)
(* to the client are those recorded from the upstream response (the        *)
(* hop-by-hop ones apart).                                                 *)
(***************************************************************************)
C13_StreamStatus ==
    \A r \in Reqs :
        (Streaming(r) /\ rpc[r] \in {"streaming", "errframe", "done", "gone"}) =>
            /\ response[r].status = sstate[r].status_code
            /\ Sent(FilterHeaders(sstate[r].headers)) \subseteq response[r].headers

(***************************************************************************)
(* Sink failures                                                           *)
(***************************************************************************)
\* the last callback invoked for record eid (0: none yet)
LastCbFor(eid) ==
    LET idx == {i \in 1 .. Len(cbCalls) : cbCalls[i].eid = eid}
    IN  IF idx = {} THEN 0 ELSE CHOOSE i \in idx : \A j \in idx : j <= i

(***************************************************************************)
(* C15: when sink initialization or submission fails for a task, the       *)
(* task's callback is still invoked, with null, so that the record stays   *)
(* in the store with trace_pending = false and trace_url = null.           *)
(***************************************************************************)
C15_FailedSinkClearsPending ==
    /\ Len(cbCalls) = Len(taken) - (IF workerPc = "executor" THEN 1 ELSE 0)
    /\ \A i \in 1 .. Len(cbCalls) :
           /\ cbCalls[i].tid = taken[i]
           /\ cbCalls[i].outcome # "logged" => cbCalls[i].url = None
    /\ \A eid \in IssuedIds :
           (LastCbFor(eid) # 0 /\ cbCalls[LastCbFor(eid)].outcome # "logged") =>
               /\ eid \in Range(logs)
               /\ ent[eid].trace_url = None
               /\ ent[eid].trace_pending = FALSE

\* a record added with trace_pending set has had its task fail in the
\* submission, after a task of another record was logged with a URL
C15_Witness ==
    \E i, j \in 1 .. Len(cbCalls) :
        /\ cbCalls[i].outcome = "log_failed"
        /\ cbCalls[j].outcome = "logged" /\ cbCalls[j].url # None
        /\ cbCalls[i].eid # cbCalls[j].eid
        /\ ent[cbCalls[i].eid].path = "/v1/chat/completions"
        /\ ent[cbCalls[i].eid].trace_pending = FALSE
        /\ ent[cbCalls[i].eid].trace_url = None

(***************************************************************************)
(* C16: when a subscriber's channel already holds 50 events, a further     *)
(* add_log, update_log_entry or update_trace_url drops that event for that *)
(* subscriber only: the producer returns, the subscriber stays in the      *)
(* subscriber list, every other subscriber gets the event, and no channel  *)
(* ever holds more than 50 events.                                         *)
(***************************************************************************)
C16_OverflowDropsOne ==
    /\ [](\A s \in Subscribers : Len(subQueue[s]) <= SubQueueCap)
    /\ [][emitted' # emitted =>
            LET msg == emitted'[Len(emitted')]
            IN  /\ emitted' = Append(emitted, msg)
                /\ calls' = calls + 1
                /\ subscribers' = subscribers
                /\ \A s \in subscribers :
                       subQueue'[s] = IF Len(subQueue[s]) >= SubQueueCap
                                      THEN subQueue[s]
                                      ELSE Append(subQueue[s], msg)
        ]_vars

\* the slow subscriber's channel is full and has lost a trace_update, which
\* the other subscriber has got; both are still subscribed
C16_Witness ==
    /\ subscribers = {"s1", "s2"}
    /\ Len(subQueue["s1"]) = SubQueueCap
    /\ delivered["s1"] = <<>>
    /\ Len(emitted) > SubQueueCap
    /\ emitted[Len(emitted)].type = "trace_update"
    /\ Len(delivered["s2"]) + Len(subQueue["s2"]) = Len(emitted)

(***************************************************************************)
(* C17: every record added to the Log Store for a captured request has a   *)
(* non-empty trace_id, whatever headers and body the request carries.      *)
(***************************************************************************)
C17_TraceIdSet ==
    \A eid \in DOMAIN ent :
        /\ "trace_id" \in DOMAIN ent[eid]
        /\ ent[eid].trace_id # None

(***************************************************************************)
(* C18: two sink tasks can be in progress at the same time: while one task *)
(* is blocked in slow sink I/O, a task enqueued after it can still be      *)
(* taken from the queue and completed, without waiting for the slow one.   *)
(***************************************************************************)
C18_NoHeadOfLineBlocking ==
    (workerPc = "executor" /\ sinkQueue # <<>>) => ENABLED WorkerTake

(***************************************************************************)
(* Provider matching, as the statements below put it                       *)
(***************************************************************************)
\* the path with its leading slash
Normalized(path) ==
    IF path # <<>> /\ path[1] = "/" THEN path ELSE <<"/">> \o path

\* lit occurs in str
Occurs(lit, str) ==
    \E i \in 1 .. Len(str) + 1 :
        /\ i + Len(lit) - 1 <= Len(str)
        /\ \A k \in 1 .. Len(lit) : str[i + k - 1] = lit[k]

\* the pattern matches the string
Hit(pat, str) ==
    IF pat.bol /\ pat.eol THEN str = pat.lit
    ELSE IF pat.bol THEN StartsWith(str, pat.lit)
    ELSE IF pat.eol THEN EndsWith(str, pat.lit)
    ELSE Occurs(pat.lit, str)

\* some path pattern of p matches the normalized path
SomePathPattern(p, path) ==
    \E i \in 1 .. Len(p.path_patterns) :
        IF p.is_regex THEN Hit(p.path_patterns[i], Normalized(path))
        ELSE \/ EndsWith(Normalized(path), p.path_patterns[i].lit)
             \/ EndsWith(BeforeQuery(Normalized(path)), p.path_patterns[i].lit)

\* some host pattern of p matches the host, case-insensitively
SomeHostPattern(p, host) ==
    \E i \in 1 .. Len(p.host_patterns) :
        Hit([p.host_patterns[i] EXCEPT !.lit = FoldAll(@)], FoldAll(host))

(***************************************************************************)
(* C19: is_capturable(path, host) returns (true, "custom") whenever        *)
(* capture_all is set; otherwise (true, name) for the first provider in    *)
(* list order whose path and host both match, or (false, null) when none   *)
(* does: the result is a function of the config and of (path, host).       *)
(***************************************************************************)
C19_FirstMatchWins ==
    "is_capturable" \in fpc =>
        LET ps == arg.cfg.providers
            hits == {i \in 1 .. Len(ps) :
                        MatchesPath(ps[i], arg.path) /\ MatchesHost(ps[i], arg.host)}
        IN  ret.result =
                IF arg.cfg.capture_all_requests THEN <<TRUE, "custom">>
                ELSE IF hits = {} THEN <<FALSE, None>>
                ELSE <<TRUE, ps[CHOOSE i \in hits : \A j \in hits : i <= j].name>>

\* two providers of different names both match, the first was returned
C19_Witness ==
    /\ "is_capturable" \in fpc
    /\ ~arg.cfg.capture_all_requests
    /\ Len(arg.cfg.providers) = 2
    /\ arg.cfg.providers[1].name # arg.cfg.providers[2].name
    /\ Matches(arg.cfg.providers[1], arg.path, arg.host)
    /\ Matches(arg.cfg.providers[2], arg.path, arg.host)
    /\ ret.result = <<TRUE, arg.cfg.providers[1].name>>

(***************************************************************************)
(* C20 as stated: for every ProviderPattern and every (path, host), an     *)
(* empty host included, the pattern matches iff some path pattern matches  *)
(* the leading-slash-normalized path and (the host-pattern list is empty   *)
(* or some host pattern case-insensitively matches host).                  *)
(***************************************************************************)
C20_Original ==
    "matches" \in fpc =>
        \A i \in 1 .. Len(arg.cfg.providers) :
            LET p == arg.cfg.providers[i]
            IN  ret.matches[i] <=>
                    /\ SomePathPattern(p, arg.path)
                    /\ (p.host_patterns = <<>> \/ SomeHostPattern(p, arg.host))

(***************************************************************************)
(* C20 amended: the pattern matches iff the path is not empty and some     *)
(* path pattern matches the leading-slash-normalized path, and (the host   *)
(* is empty or the host-pattern list is empty or some host pattern         *)
(* case-insensitively matches host).                                       *)
(***************************************************************************)
C20_Matches ==
    "matches" \in fpc =>
        \A i \in 1 .. Len(arg.cfg.providers) :
            LET p == arg.cfg.providers[i]
            IN  ret.matches[i] <=>
                    /\ arg.path # <<>>
                    /\ SomePathPattern(p, arg.path)
                    /\ \/ arg.host = <<>>
                       \/ p.host_patterns = <<>>
                       \/ SomeHostPattern(p, arg.host)

\* with an empty host a provider that has host patterns matched on its path,
\* and another one did not match
C20_Witness ==
    /\ "matches" \in fpc
    /\ arg.host = <<>>
    /\ Len(arg.cfg.providers) = 2
    /\ arg.cfg.providers[1].host_patterns # <<>>
    /\ ret.matches[1]
    /\ ~ret.matches[2]

(***************************************************************************)
(* Dispatcher, forward engine request, resolver                            *)
(***************************************************************************)
\* the part of a URL after its first "?"
RECURSIVE QueryOf(_)
QueryOf(url) ==
    IF url = <<>> THEN <<>>
    ELSE IF Head(url) = "?" THEN Tail(url)
    ELSE QueryOf(Tail(url))

IsAbsolute(p) == StartsWith(p, HTTP) \/ StartsWith(p, HTTPS)

\* C21: the non-streaming upstream request carries the incoming request's
\* method, the resolved URL, the body unchanged, the original query string,
\* and every incoming header except host and content-length.
C21_UpstreamRequest ==
    "send" \in fpc =>
        /\ ret.request.method = arg.method
        /\ BeforeQuery(ret.request.url) = ret.answer.url
        /\ ret.request.content = arg.body
        /\ QueryOf(ret.request.url) = arg.query
        /\ ret.request.headers =
               arg.headers \ {"host", "Host", "content-length",
                              "Content-Length"}

\* C22 as stated: a target beginning http:// or https:// is forwarded with
\* exactly that URL; one beginning // gets http: prefixed; one beginning
\* /http:// or /https:// has its leading slash stripped; a path beginning
\* __weaverun__ is never forwarded; every other path goes through the
\* Resolver.
C22_Original ==
    "route" \in fpc =>
        LET p == arg.path
            a == ret.answer
        IN  IF IsAbsolute(p) THEN a = Forward(p)
            ELSE IF StartsWith(p, <<"/", "/">>)
                 THEN a = Forward(<<"h", "t", "t", "p", ":">> \o p)
            ELSE IF IsAbsolute(Tail(p)) THEN a = Forward(Tail(p))
            ELSE IF StartsWith(Tail(p), WEAVERUN) THEN a.kind # "forward"
            ELSE a = Forward(ResolveUpstream(Tail(p), arg.env))

\* C22 amended: as stated, except that the path /__proxy__ requested
\* directly is answered 400 and not forwarded; every path other than these
\* goes through the Resolver.
C22_Dispatch ==
    "route" \in fpc =>
        LET p == arg.path
            a == ret.answer
        IN  IF IsAbsolute(p) THEN a = Forward(p)
            ELSE IF StartsWith(p, <<"/", "/">>)
                 THEN a = Forward(<<"h", "t", "t", "p", ":">> \o p)
            ELSE IF IsAbsolute(Tail(p)) THEN a = Forward(Tail(p))
            ELSE IF StartsWith(Tail(p), WEAVERUN) THEN a.kind # "forward"
            ELSE IF p = PROXY_PATH THEN a.kind # "forward" /\ a.status = 400
            ELSE a = Forward(ResolveUpstream(Tail(p), arg.env))

C22_Witness ==
    /\ "route" \in fpc
    /\ arg.path = <<"/", "/", "h", "/", "a">>
    /\ ret.answer.kind = "forward"
    /\ ret.answer.url = HTTP \o <<"h", "/", "a">>

\* base with its trailing '/' characters removed
IsTrimmed(t, base) ==
    \E k \in 0 .. Len(base) :
        /\ t = SubSeq(base, 1, k)
        /\ k = 0 \/ base[k] # "/"
        /\ \A i \in (k + 1) .. Len(base) : base[i] = "/"

HeaderNamed(name) ==
    LET hit == {i \in 1 .. Len(arg.headers) :
                   Lower(arg.headers[i][1]) = name}
    IN  IF hit = {} THEN <<>> ELSE arg.headers[CHOOSE i \in hit : TRUE][2]

\* the traceparent values of the drawn headers that are valid W3C values
ValidTraceparents == {TpValid, TpUpper, TpPadded}

Cut(str, n) == IF Len(str) <= n THEN str ELSE SubSeq(str, 1, n)

\* C24: extract_trace_context picks trace_id by priority: a valid W3C
\* traceparent header (which also supplies parent_span_id); else the first
\* non-empty of x-trace-id, x-request-id, x-correlation-id, x-b3-traceid
\* truncated to 32 characters; else the body's metadata / run / session
\* identifiers; else a generated value; header names are matched
\* case-insensitively.
C24_TracePriority ==
    "extract" \in fpc =>
        LET t == ret.ctx.trace_id
            b == arg.body
            isDict == b.kind = "dict"
            meta == IF isDict /\ b.metadata.isdict
                    THEN IF b.metadata.trace_id # <<>>
                         THEN b.metadata.trace_id ELSE b.metadata.traceId
                    ELSE <<>>
            run == IF ~isDict THEN <<>>
                   ELSE IF b.run_id # <<>> THEN b.run_id ELSE b.runId
            sessions == <<b.session_id, b.sessionId, b.conversation_id,
                          b.conversationId, b.thread_id, b.threadId>>
            some == {i \in 1 .. 6 : isDict /\ sessions[i] # <<>>}
            session == IF some = {} THEN <<>>
                       ELSE sessions[CHOOSE i \in some :
                                        \A j \in some : i <= j]
        IN  IF HeaderNamed("traceparent") \in ValidTraceparents
            THEN t = Rep("a", 32) /\ ret.ctx.parent_span_id = Rep("b", 16)
            ELSE IF HeaderNamed("x-trace-id") # <<>>
                 THEN t = Cut(HeaderNamed("x-trace-id"), 32)
            ELSE IF HeaderNamed("x-request-id") # <<>>
                 THEN t = Cut(HeaderNamed("x-request-id"), 32)
            ELSE IF HeaderNamed("x-correlation-id") # <<>>
                 THEN t = Cut(HeaderNamed("x-correlation-id"), 32)
            ELSE IF HeaderNamed("x-b3-traceid") # <<>>
                 THEN t = Cut(HeaderNamed("x-b3-traceid"), 32)
            ELSE IF meta # <<>> THEN t = meta
            ELSE IF run # <<>> THEN t = Cut(run, 32)
            ELSE IF session # <<>> THEN t = Cut(session, 32)
            ELSE t \in Fresh32

C24_Witness ==
    /\ "extract" \in fpc
    /\ HeaderNamed("traceparent") = TpShort
    /\ ret.ctx.trace_id = Rep("r", 32)

(***************************************************************************)
(* Configuration loading                                                   *)
(***************************************************************************)
\* the user-defined providers of the drawn file, in file order
UserProviders == ParseCustomProviders(arg.file.providers)

\* the first user-defined provider matching the drawn request, or 0
UserHit ==
    LET hit == {i \in 1 .. Len(UserProviders) :
                   Matches(UserProviders[i], arg.path, arg.host)}
    IN  IF hit = {} THEN 0 ELSE CHOOSE i \in hit : \A j \in hit : i <= j

\* C25: load_config places user-defined providers ahead of the built-ins, so
\* a user provider wins on overlapping patterns, and disable_providers
\* removes built-in providers with the listed names (and only built-ins).
C25_LoadConfig ==
    /\ ("load" \in fpc /\ arg.file.present) =>
           ret.config.providers =
               UserProviders
                   \o SelectSeq(BUILTIN_PROVIDERS,
                                LAMBDA p : p.name \notin
                                               arg.file.disable_providers)
    /\ ("classify" \in fpc /\ arg.file.present /\ UserHit # 0) =>
           ret.result = <<TRUE, UserProviders[UserHit].name>>

(***************************************************************************)
(* Bodies that are not JSON                                                *)
(***************************************************************************)
\* C26: when the request body or the response body of a captured
\* non-streaming call is not valid JSON, the record is still added, with
\* that body field null and the other fields set as usual.
C26_InvalidJsonRecorded ==
    \A r \in Reqs :
        (/\ rin[r].capture /\ ~Streaming(r) /\ Handled(r)
         /\ upOutcome[r] = "ok"
         /\ \/ ParseJson(rin[r].body) = NoBody
            \/ ParseJson(upResp[r].content) = NoBody) =>
            /\ reqEntry[r] # 0
            /\ ent[reqEntry[r]].request_body = ParseJson(rin[r].body)
            /\ ent[reqEntry[r]].response_body = ParseJson(upResp[r].content)
            /\ ent[reqEntry[r]].status_code = upResp[r].status

(***************************************************************************)
(* Eviction                                                                *)
(***************************************************************************)
\* a record leaves the ring or the index only in an add_log step taken with
\* LogCap records stored, and the one that leaves is the oldest
EvictionStep ==
    \A i \in (Range(logs) \ Range(logs')) \cup (Range(logsById) \ Range(logsById')) :
        /\ nextId' = nextId + 1
        /\ Len(logs) = LogCap
        /\ i = Head(logs)
        /\ i = Head(logsById)
        /\ logs' = Append(Tail(logs), nextId)

\* C27: records leave the store only by eviction in add_log, oldest first,
\* once 100 are stored, and after every add_log the set of ids in the id
\* index equals the set of ids of the records in the ring.
C27_EvictionOnlyInAddLog ==
    /\ [](Range(logsById) = Range(logs))
    /\ [][EvictionStep]_vars

\* two records have been evicted from a full ring, and an update was made
C27_Witness ==
    /\ Len(logs) = LogCap
    /\ Head(logs) = 3
    /\ Range(logsById) = Range(logs)
    /\ \E i \in 1 .. Len(emitted) : emitted[i].type = "log_update"

(***************************************************************************)
(* Streaming: the record before, and after, the stream                     *)
(***************************************************************************)
\* C28: after the end-of-stream update of a captured streaming request, the
\* record's response_body is the reconstructed response when an id or some
\* content was recovered from the chunks, and null otherwise.
C28_FinalBody ==
    \A eid \in fpc :
        eid \in Range(logsById) =>
            LET lines == Flatten(arg[eid])
                recovered ==
                    \E i \in 1 .. Len(lines) :
                        /\ lines[i].kind = "event"
                        /\ lines[i].id # None \/ lines[i].content # <<>>
            IN  IF recovered
                THEN ent[eid].response_body = ParseSseChunks(arg[eid])
                ELSE ent[eid].response_body = NoBody

\* C29: for a captured streaming request the record is added, and its `log`
\* event broadcast, before the upstream request is opened, with status_code
\* 200, latency_ms 0 and response_body the in-progress placeholder.
C29_PreLogBeforeUpstream ==
    \A r \in Reqs :
        (rin[r].capture /\ Streaming(r)
             /\ rpc[r] \notin {"new", "body"}) =>
            /\ reqEntry[r] # 0
            /\ \E i \in 1 .. Len(emitted) :
                   emitted[i].type = "log" /\ emitted[i].id = reqEntry[r]
            /\ (upOutcome[r] = None /\ sstate[r] = NoState) =>
                   /\ ent[reqEntry[r]].status_code = 200
                   /\ ent[reqEntry[r]].latency_ms = 0
                   /\ ent[reqEntry[r]].response_body = InProgress

\* C30: the response reconstructed at end-of-stream depends only on the
\* concatenation of the upstream bytes, not on how they were split into
\* chunks: a `data: ` line split across two chunks contributes the same id,
\* model and content as the same line arriving in one chunk.
C30_ChunkingIndependent ==
    {"chunked", "whole"} \subseteq fpc => ret.chunked = ret.whole

(***************************************************************************)
(* SSE aggregation                                                         *)
(***************************************************************************)
\* the JSON events among the lines of the drawn chunks, in arrival order
ArrivedEvents == SelectSeq(Flatten(arg), LAMBDA l : l.kind = "event")

RECURSIVE ConcatContent(_)
ConcatContent(evs) ==
    IF evs = <<>> THEN <<>> ELSE Head(evs).content \o ConcatContent(Tail(evs))

\* the first, and the last, value seen of a field of the events
FirstSeen(vals) ==
    LET some == {i \in 1 .. Len(vals) : vals[i] # None}
    IN  IF some = {} THEN None
        ELSE vals[CHOOSE i \in some : \A j \in some : i <= j]
LastSeen(vals) ==
    LET some == {i \in 1 .. Len(vals) : vals[i] # None}
    IN  IF some = {} THEN None
        ELSE vals[CHOOSE i \in some : \A j \in some : j <= i]

\* C31: _parse_sse_chunks concatenates choices[*].delta.content of all JSON
\* `data: ` events in arrival order (contents ["Hel", "lo"] give "Hello"),
\* skips the [DONE] sentinel and non-JSON lines, keeps the first id and
\* model seen and the last finish_reason and usage seen, and returns null
\* iff neither an id nor any content was recovered.
C31_SseAggregation ==
    "parse" \in fpc =>
        LET evs == ArrivedEvents
            ids == [i \in 1 .. Len(evs) |-> evs[i].id]
            models == [i \in 1 .. Len(evs) |-> evs[i].model]
            finishes == [i \in 1 .. Len(evs) |-> evs[i].finish]
            usages == [i \in 1 .. Len(evs) |-> evs[i].usage]
        IN  IF FirstSeen(ids) = None /\ ConcatContent(evs) = <<>>
            THEN ret.parsed = NoBody
            ELSE ret.parsed =
                     [kind |-> "streamed", id |-> FirstSeen(ids),
                      model |-> FirstSeen(models),
                      content |-> ConcatContent(evs),
                      finish_reason |-> LastSeen(finishes),
                      usage |-> LastSeen(usages)]

(***************************************************************************)
(* What the two updates change                                             *)
(***************************************************************************)
\* a step that is not an add_log: the ring and the index stay as they are,
\* a record changes only with an event, only the record the event names
\* changes, and only in the fields of its update
UpdateFrame ==
    nextId' = nextId =>
        /\ logs' = logs
        /\ logsById' = logsById
        /\ DOMAIN ent' = DOMAIN ent
        /\ ent' # ent => Len(emitted') = Len(emitted) + 1
        /\ Len(emitted') = Len(emitted) + 1 =>
               LET m == emitted'[Len(emitted')]
               IN  /\ \A e \in DOMAIN ent : e # m.id => ent'[e] = ent[e]
                   /\ m.type = "trace_update" =>
                          ent'[m.id] =
                              [ent[m.id] EXCEPT
                                  !.trace_url = ent'[m.id].trace_url,
                                  !.trace_pending = ent'[m.id].trace_pending]
                   /\ m.type = "log_update" =>
                          ent'[m.id] =
                              [ent[m.id] EXCEPT
                                  !.response_body = ent'[m.id].response_body,
                                  !.latency_ms = ent'[m.id].latency_ms,
                                  !.status_code = ent'[m.id].status_code]

\* C32: update_trace_url changes only trace_url and trace_pending of the
\* addressed record, and update_log_entry changes only response_body,
\* latency_ms and status_code of the addressed record; neither changes any
\* other record, the ring order, or the membership of the id index.
C32_UpdateFrame == [][UpdateFrame]_vars

\* in a full ring one record has had both updates
C32_Witness ==
    /\ Len(logs) = LogCap
    /\ \E i, j \in 1 .. Len(emitted) :
           /\ emitted[i].type = "trace_update"
           /\ emitted[j].type = "log_update"
           /\ emitted[i].id = emitted[j].id
           /\ ent[emitted[i].id].trace_pending = FALSE

(***************************************************************************)
(* Sink tasks: consumed once                                               *)
(***************************************************************************)
NoRepeat(seq) ==
    \A i, j \in 1 .. Len(seq) : i # j => seq[i] # seq[j]

\* C33: each enqueued sink task is taken from the queue by the worker at
\* most once, is never re-enqueued after a failure, and its callback is
\* invoked at most once.
C33_ConsumedOnce ==
    /\ NoRepeat(taken)
    /\ NoRepeat([i \in 1 .. Len(cbCalls) |-> cbCalls[i].tid])
    /\ NoRepeat([i \in 1 .. Len(sinkQueue) |-> sinkQueue[i].tid])
    /\ \A i \in 1 .. Len(sinkQueue) :
           \A j \in 1 .. Len(taken) : sinkQueue[i].tid # taken[j]
    /\ \A i \in 1 .. Len(cbCalls) :
           \E j \in 1 .. Len(taken) : taken[j] = cbCalls[i].tid

\* three tasks were consumed, the first of them failing, and nothing is
\* queued
C33_Witness ==
    /\ Len(cbCalls) = 3
    /\ cbCalls[1].outcome = "log_failed"
    /\ sinkQueue = <<>>
    /\ workerPc = "get"

(***************************************************************************)
(* Sink initialization: the sticky failure                                 *)
(***************************************************************************)
\* C34: once sink initialization has failed, no later task attempts
\* initialization again and every later task completes with a null trace
\* URL; the initialized flag and the failed flag are never both true.
C34_InitFailureSticky ==
    /\ ~(sinkInit.initialized /\ sinkInit.failed)
    /\ \A i, j \in 1 .. Len(cbCalls) :
           (i < j /\ cbCalls[i].outcome = "init_failed") =>
               /\ ~cbCalls[j].attempt
               /\ cbCalls[j].url = None
               /\ cbCalls[j].outcome = "init_failed"

\* initialization failed in the first task and two more tasks completed
C34_Witness ==
    /\ Len(cbCalls) = 3
    /\ cbCalls[1].attempt
    /\ cbCalls[1].outcome = "init_failed"
    /\ sinkInit.failed
    /\ cbCalls[3].url = None

(***************************************************************************)
(* Shutdown                                                                *)
(***************************************************************************)
\* C35: stop() terminates even when the sink queue is non-empty or a task
\* never completes: it stops waiting for queue.join() when the drain window
\* expires, then cancels the worker, after which no further task is taken
\* from the queue.
C35_StopTerminates ==
    /\ ("join" \in fpc) ~> ("returned" \in fpc)
    /\ [][("cancel" \in fpc) => (taken' = taken /\ cbCalls' = cbCalls)]_vars

\* stop() has returned with a task still in the executor and another in the
\* queue
C35_Witness ==
    /\ "returned" \in fpc
    /\ workerCur # NoTask
    /\ sinkQueue # <<>>
    /\ unfinished = 2

(***************************************************************************)
(* Pending traces under load                                               *)
(***************************************************************************)
\* C36: under fair scheduling of the sink worker and without shutdown,
\* every record added with trace_pending = true eventually has
\* trace_pending = false, whatever the load on the sink queue.
C36_PendingEventuallyCleared ==
    \A eid \in 1 .. MaxLoadAdds :
        (eid < nextId /\ ent[eid].trace_pending)
            ~> (eid < nextId /\ ~ent[eid].trace_pending)

(***************************************************************************)
(* Replay and live delivery                                                *)
(***************************************************************************)
\* the positions of a subscriber's frames that are `log` events
LogFrames(s) == {i \in 1 .. Len(delivered[s]) : delivered[s][i].type = "log"}

\* C37: a subscriber never receives the same record as a `log` event twice,
\* even when add_log runs between the subscriber's registration in the
\* subscriber list and the end of its snapshot replay.
C37_NoDuplicateLog ==
    \A s \in Subscribers :
        \A i, j \in LogFrames(s) :
            delivered[s][i].id = delivered[s][j].id => i = j

\* add_log ran while s1 was registered and replaying: the new record is in
\* the ring and its `log` message in s1's channel, and the replay has resumed
C37_Witness ==
    /\ subPc["s1"] = "crashed"
    /\ delivered["s1"] # <<>>
    /\ \E i \in 1 .. Len(subQueue["s1"]) :
           /\ subQueue["s1"][i].type = "log"
           /\ subQueue["s1"][i].id \in Range(logs)

(***************************************************************************)
(* Updates for evicted records                                             *)
(***************************************************************************)
\* a holder's call whose id is not in the index leaves the records, the
\* ring, the index and every channel as they were, and emits nothing
LateUpdateIsNoOp ==
    (Len(arg') = Len(arg) + 1 /\ arg'[Len(arg')].id \notin Range(logsById)) =>
        /\ ent' = ent
        /\ emitted' = emitted
        /\ subQueue' = subQueue
        /\ logs' = logs
        /\ logsById' = logsById

\* C38: update_log_entry and update_trace_url called with an id that is no
\* longer in the id index (the record was evicted while its stream or sink
\* task was still running) change no record and broadcast no event.
C38_EvictedUpdateNoOp == [][LateUpdateIsNoOp]_vars

\* both updates have been called for a record that had been evicted, and
\* the record is as add_log made it
C38_Witness ==
    \E i, j \in 1 .. Len(arg) :
        /\ arg[i].op = "update_trace_url"
        /\ arg[j].op = "update_log_entry"
        /\ arg[i].id >= 1 /\ ~arg[i].found
        /\ arg[j].id >= 1 /\ ~arg[j].found
        /\ ent[arg[i].id] = NewEntry(arg[i].id, DefaultArgs)
        /\ ent[arg[j].id] = NewEntry(arg[j].id, DefaultArgs)

(***************************************************************************)
(* Requests that are not capturable                                        *)
(***************************************************************************)
\* the step is one of request r's: its arrival, its forward or one step of
\* its stream
StepOf(r) ==
    \/ rpc'[r] # rpc[r]
    \/ upSeq'[r] # upSeq[r]
    \/ client'[r] # client[r]

\* a step of a request that is not capturable changes neither the ring, the
\* index, the records, a subscriber channel nor the sink queue
NonCapturableFrame ==
    \A r \in Reqs :
        (StepOf(r) /\ ~rin'[r].capture) =>
            /\ logs' = logs
            /\ logsById' = logsById
            /\ ent' = ent
            /\ emitted' = emitted
            /\ subQueue' = subQueue
            /\ sinkQueue' = sinkQueue
            /\ putLog' = putLog

\* C39: a request that the matcher does not mark capturable, streaming or
\* not, leaves the ring, the id index, every subscriber channel and the sink
\* queue unchanged.
C39_NonCapturableUntouched == [][NonCapturableFrame]_vars

\* two requests that are not capturable have been served to the end: a
\* stream of MaxChunks chunks and a forwarded upstream response
C39_Witness ==
    /\ ~rin["r1"].capture /\ ~rin["r1"].debug
    /\ IsStreamingRequest(rin["r1"].body)
    /\ rpc["r1"] = "done" /\ Len(client["r1"]) = MaxChunks
    /\ ~rin["r2"].capture /\ ~rin["r2"].debug
    /\ ~IsStreamingRequest(rin["r2"].body)
    /\ rpc["r2"] = "done" /\ upOutcome["r2"] = "ok"
    /\ logs = <<>> /\ sinkQueue = <<>>

====
